---- MODULE Spec2Model ----
(***************************************************************************)
(* Model of lib/MSDFString.js: the static font cache (loadFont, getFont,   *)
(* clearFontCache) and one MSDFString text object (constructor, _resize,   *)
(* setText, the per-character and global setters, getText, getLength,      *)
(* resetCharacterAttributes), and of lib/shaders.js with the shader block  *)
(* that _injectMSDFIntoMaterial splices into a host material: the fragment *)
(* program on one pixel, and the splice on a host program.                 *)
(*                                                                         *)
(* Every Float32 value (positions, scales, UV rects, colours, thickness    *)
(* multipliers, glow flags, uniforms) is held as the integer value * Den.  *)
(* The atlases and font sizes used as inputs are chosen so that every      *)
(* quantity the layout computes is an exact multiple of 1/Den.  The values *)
(* the fragment shader computes are held as value * Fine (section "the     *)
(* shaders").  lib/effects/matrixRain.js, which writes the buffers of a    *)
(* text object, and the renderer's attribute upload are modelled too.      *)
(* Slot index i of the source (0-based) is position i+1 of a sequence.     *)
(***************************************************************************)
EXTENDS Integers, Sequences, FiniteSets, TLC

\* ------------------------------------------------------------------ bounds
MaxLen == 1          \* every text up to this length is handed to setText
MaxOps == 2          \* operations on the text object after construction
MaxLoads == 3        \* loadFont calls issued

\* --------------------------------------------------------- fixed point unit
Den == 800
FP(n, d) == (n * Den) \div d             \* the value n/d
One == FP(1, 1)

\* constructor: Math.max(text.length, 100)
DefaultCapacity == 100

Max(a, b) == IF a >= b THEN a ELSE b

\* ------------------------------------------------------------------ inputs
RECURSIVE SeqsUpTo(_, _)
SeqsUpTo(S, n) ==
  IF n = 0 THEN {<<>>}
  ELSE LET P == SeqsUpTo(S, n - 1)
       IN  P \cup {Append(s, c) : s \in {p \in P : Len(p) = n - 1}, c \in S}
\* every text up to MaxLen characters of a glyph, a character without glyph
\* and the line break, and five longer ones with a second glyph: two glyphs,
\* an unresolved character before a glyph and between two glyphs, a line
\* break between two glyphs, and two lines of glyphs
Texts ==
  SeqsUpTo({"A", "?", "\n"}, MaxLen)
  \cup {<<"B", "A">>, <<"?", "A">>, <<"A", "?", "B">>, <<"B", "\n", "A">>,
        <<"A", "B", "\n", "B">>}

\* glyph records of the metrics document (fields of the BMFont JSON)
Glyph(x, y, w, h, xo, yo, xa) ==
  [x |-> x, y |-> y, width |-> w, height |-> h,
   xoffset |-> xo, yoffset |-> yo, xadvance |-> xa]

\* two atlases (metrics documents), "a10" and "a5": nominal sizes 10 and 5
AtlasData(a) ==
  IF a = "a10"
  THEN [size |-> 10, scaleW |-> 100, scaleH |-> 100,
        chars |-> [c \in {"A", "B"} |->
                     IF c = "A" THEN Glyph(0, 0, 10, 10, 0, 0, 12)
                                ELSE Glyph(10, 0, 8, 10, 1, 2, 10)]]
  ELSE [size |-> 5, scaleW |-> 50, scaleH |-> 50,
        chars |-> [c \in {"A", "B"} |->
                     IF c = "A" THEN Glyph(0, 0, 5, 5, 0, 0, 6)
                                ELSE Glyph(5, 0, 4, 5, 1, 1, 5)]]

\* _glyphMap.get(char): the glyph record, or NoGlyph (undefined)
NoGlyph == [x |-> -1]
GlyphGet(a, ch) ==
  IF ch \in DOMAIN AtlasData(a).chars THEN AtlasData(a).chars[ch] ELSE NoGlyph

\* layout options of setText: fontSize, align, lineHeight (in tenths)
DefaultOptions == [fontSize |-> 1, align |-> "left", lineHeight |-> 12]
Options(f, al) == [fontSize |-> f, align |-> al, lineHeight |-> 12]
OptionSet == {Options(1, "left"), Options(2, "center"), Options(1, "right")}

\* ----------------------------------------------------------- slot contents
Matrix(px, py, pz, sx, sy, sz) ==
  [x |-> px, y |-> py, z |-> pz, sx |-> sx, sy |-> sy, sz |-> sz]
Identity == Matrix(0, 0, 0, One, One, One)          \* THREE InstancedMesh init
ParkedMatrix == Matrix(0, 0, FP(-10000, 1), 0, 0, 0)
White == <<One, One, One, One>>
DefaultThickness == <<One, One>>
ZeroUV == <<0, 0, 0, 0>>

\* text.split('\n')
RECURSIVE SplitLines(_)
SplitLines(t) ==
  IF \A i \in DOMAIN t : t[i] # "\n" THEN <<t>>
  ELSE LET k == CHOOSE i \in DOMAIN t :
                  t[i] = "\n" /\ \A j \in 1..(i - 1) : t[j] # "\n"
       IN  <<SubSeq(t, 1, k - 1)>> \o SplitLines(SubSeq(t, k + 1, Len(t)))

\* lineWidth: sum of xadvance * scale over the resolvable characters
RECURSIVE LineWidth(_, _, _)
LineWidth(line, a, fontSize) ==
  IF line = <<>> THEN 0
  ELSE LET g == GlyphGet(a, Head(line))
       IN  (IF g # NoGlyph THEN FP(g.xadvance * fontSize, AtlasData(a).size) ELSE 0)
           + LineWidth(Tail(line), a, fontSize)

\* horizontal anchor of a line
AlignOffset(align, lineWidth) ==
  IF align = "center" THEN -(lineWidth \div 2)
  ELSE IF align = "right" THEN -lineWidth
  ELSE 0

\* vertical anchor: (lines.length / 2 - lineIdx - 0.5) * lineHeight * fontSize
LineY(nLines, lineIdx, o) ==
  FP((nLines - 2 * lineIdx - 1) * o.lineHeight * o.fontSize, 20)

\* fallback advance of a character without glyph: fontSize * scale * 0.3
MissingAdvance(a, fontSize) ==
  FP(fontSize * fontSize * 3, AtlasData(a).size * 10)

\* the instance written for one resolvable character at cursor xOffset
GlyphSlot(g, a, fontSize, xOffset, yOffset) ==
  LET S  == AtlasData(a).size
      gw == FP(g.width * fontSize, S)
      gh == FP(g.height * fontSize, S)
      xPos == xOffset + FP(g.xoffset * fontSize, S) + (gw \div 2)
      yPos == yOffset - FP(g.yoffset * fontSize, S) - (gh \div 2)
  IN  [m  |-> Matrix(xPos, yPos, 0, gw, gh, One),
       uv |-> << FP(g.x, AtlasData(a).scaleW),
                 FP(g.y + g.height, AtlasData(a).scaleH),
                 FP(g.width, AtlasData(a).scaleW),
                 -FP(g.height, AtlasData(a).scaleH) >>]

\* the inner loop of setText over one line: the slots written, in order
RECURSIVE LayoutLine(_, _, _, _, _)
LayoutLine(line, a, fontSize, xOffset, yOffset) ==
  IF line = <<>> THEN <<>>
  ELSE LET g == GlyphGet(a, Head(line))
       IN  IF g = NoGlyph
           THEN LayoutLine(Tail(line), a, fontSize,
                           xOffset + MissingAdvance(a, fontSize), yOffset)
           ELSE <<GlyphSlot(g, a, fontSize, xOffset, yOffset)>>
                \o LayoutLine(Tail(line), a, fontSize,
                              xOffset + FP(g.xadvance * fontSize, AtlasData(a).size),
                              yOffset)

\* the outer loop of setText: all lines from lineIdx on
RECURSIVE LayoutLines(_, _, _, _)
LayoutLines(lines, lineIdx, a, o) ==
  IF lineIdx >= Len(lines) THEN <<>>
  ELSE LET line == lines[lineIdx + 1]
           x0 == AlignOffset(o.align, LineWidth(line, a, o.fontSize))
           y0 == LineY(Len(lines), lineIdx, o)
       IN  LayoutLine(line, a, o.fontSize, x0, y0)
           \o LayoutLines(lines, lineIdx + 1, a, o)

Layout(t, a, o) == LayoutLines(SplitLines(t), 0, a, o)

\* --------------------------------------------------------------- the state
VARIABLES
  fontCache,             \* static fontCache: name -> texture id (0: no entry)
  loads,                 \* loadFont calls: id -> [name, status]
  disposed,              \* texture id -> dispose() calls made on it
  constructed,           \* the text object exists
  thrown,                \* what the last constructor call threw
  font,                  \* this.font (the atlas of fontData.data)
  material,              \* this.material: "shader" (own ShaderMaterial) or "none"
  capacity,              \* this.capacity
  count,                 \* this.count (InstancedMesh)
  _text,                 \* this._text
  instanceMatrix,        \* this.instanceMatrix.array, one Matrix per slot
  uvOffset,              \* geometry.attributes.uvOffset.array
  instanceColor,         \* geometry.attributes.instanceColor.array
  instanceOutlineColor,  \* geometry.attributes.instanceOutlineColor.array
  instanceThickness,     \* geometry.attributes.instanceThickness.array
  instanceGlowMode,      \* geometry.attributes.instanceGlowMode.array
  needsUpdate,           \* buffers marked for re-upload
  uniforms,              \* material.uniforms
  ops,                   \* operations performed on the object
  last,                  \* the last call made and its arguments
  prev,                  \* the call made before it: its name, whether it grew
  program,               \* the shader program last handed to onBeforeCompile
  frag,                  \* the fragment last shaded: its inputs and outputs
  gpu,                   \* per buffer: whether its attribute object has a GL
                         \* buffer, and the contents last uploaded to it
  rain                   \* the MatrixRain effect attached to the text object

cacheVars == <<fontCache, loads, disposed>>
meshVars == <<capacity, count, _text, instanceMatrix, uvOffset, instanceColor,
              instanceOutlineColor, instanceThickness, instanceGlowMode, needsUpdate,
              gpu>>
objVars == <<constructed, thrown, font, material, uniforms>>
gpuVars == <<program, frag>>
vars == <<fontCache, loads, disposed, constructed, thrown, font, material,
          capacity, count, _text, instanceMatrix, uvOffset, instanceColor,
          instanceOutlineColor, instanceThickness, instanceGlowMode, needsUpdate,
          uniforms, ops, last, prev, program, frag, gpu, rain>>

Names == {"f10", "f5"}
\* the metrics document served under a font name
AtlasOfName(n) == IF n = "f10" THEN "a10" ELSE "a5"

Buffers == {"instanceMatrix", "uvOffset", "instanceColor", "instanceOutlineColor",
            "instanceThickness", "instanceGlowMode"}

\* an attribute object the renderer has not seen yet
NoUpload == [has |-> FALSE, data |-> <<>>]

\* the fields of the object that setText and _resize work on
Mesh ==
  [capacity |-> capacity, count |-> count, text |-> _text,
   instanceMatrix |-> instanceMatrix, uvOffset |-> uvOffset,
   instanceColor |-> instanceColor, instanceOutlineColor |-> instanceOutlineColor,
   instanceThickness |-> instanceThickness, instanceGlowMode |-> instanceGlowMode,
   needsUpdate |-> needsUpdate, gpu |-> gpu]

SetMesh(M) ==
  /\ capacity' = M.capacity
  /\ count' = M.count
  /\ _text' = M.text
  /\ instanceMatrix' = M.instanceMatrix
  /\ uvOffset' = M.uvOffset
  /\ instanceColor' = M.instanceColor
  /\ instanceOutlineColor' = M.instanceOutlineColor
  /\ instanceThickness' = M.instanceThickness
  /\ instanceGlowMode' = M.instanceGlowMode
  /\ needsUpdate' = M.needsUpdate
  /\ gpu' = M.gpu

\* a reallocation that forgets set(old)
GrownFresh(old, n, dflt) == [i \in 1..n |-> dflt]

\* new Float32Array(n * k), then set(old), then the loop that writes the
\* default dflt into the slots from the old capacity on (the UV rects get
\* no such loop: they stay at the zeros of the fresh array)
Grown(old, n, dflt) == [i \in 1..n |-> IF i <= Len(old) THEN old[i] ELSE dflt]

\* a reallocation that writes the default style into every slot
ResizeRestyling(M, newCapacity) ==
      [M EXCEPT
        !.uvOffset = Grown(M.uvOffset, newCapacity, ZeroUV),
        !.instanceColor = [i \in 1..newCapacity |-> White],
        !.instanceOutlineColor = [i \in 1..newCapacity |-> White],
        !.instanceThickness = [i \in 1..newCapacity |-> DefaultThickness],
        !.instanceGlowMode = [i \in 1..newCapacity |-> One],
        !.needsUpdate = [b \in Buffers |->
                           IF b = "instanceMatrix" THEN M.needsUpdate[b] ELSE FALSE],
        !.gpu = [b \in Buffers |->
                   IF b = "instanceMatrix" THEN M.gpu[b] ELSE NoUpload],
        !.capacity = newCapacity]

\* _resize(newCapacity): reallocates the five geometry attributes, copies the
\* old contents, defaults the new style slots.  instanceMatrix is not touched.
Resize(M, newCapacity) ==
      [M EXCEPT
        !.uvOffset = Grown(M.uvOffset, newCapacity, ZeroUV),
        !.instanceColor = Grown(M.instanceColor, newCapacity, White),
        !.instanceOutlineColor = Grown(M.instanceOutlineColor, newCapacity, White),
        !.instanceThickness = Grown(M.instanceThickness, newCapacity, DefaultThickness),
        !.instanceGlowMode = Grown(M.instanceGlowMode, newCapacity, One),
        !.needsUpdate = [b \in Buffers |->
                           IF b = "instanceMatrix" THEN M.needsUpdate[b] ELSE FALSE],
        \* the new InstancedBufferAttribute objects have no GL buffer yet
        !.gpu = [b \in Buffers |->
                   IF b = "instanceMatrix" THEN M.gpu[b] ELSE NoUpload],
        !.capacity = newCapacity]

\* Math.ceil(textLength * 1.5)
NewCapacity(textLength) == (3 * textLength + 1) \div 2

\* a capacity that is fitted to every text of another length
NeedsResizeFit(textLength, cap) == textLength # cap

\* if (textLength > this.capacity) this._resize(...)
NeedsResize(textLength, cap) == textLength > cap

\* a stored text that keeps the laid-out glyphs only
StoredGlyphs(t) ==
  LET Kept(c) == c \in {"A", "B"} IN SelectSeq(t, Kept)

\* this._text = text
StoredText(t) == t

\* a layout that appends after the live characters
FirstSlotAppend(cnt) == cnt

\* let charIdx = 0
FirstSlot(cnt) == 0

\* the first slot parked by the "hide unused characters" loop
FirstParked(charIdx) == charIdx

\* setText(text, options) on an object whose font is atlas a
SetTextOn(M, a, t, o) ==
  LET R == IF NeedsResize(Len(t), M.capacity)
           THEN Resize(M, NewCapacity(Len(t))) ELSE M
      W == Layout(t, a, o)
      first == FirstSlot(M.count)
      charIdx == first + Len(W)
      \* setMatrixAt(i, m): a write past the end of the typed array is dropped
      mats == [i \in 1..Len(R.instanceMatrix) |->
                 IF i > first /\ i <= charIdx THEN W[i - first].m
                 ELSE IF i > FirstParked(charIdx) /\ i <= R.capacity THEN ParkedMatrix
                 ELSE R.instanceMatrix[i]]
      uvs == [i \in 1..Len(R.uvOffset) |->
                 IF i > first /\ i <= charIdx THEN W[i - first].uv
                 ELSE R.uvOffset[i]]
  IN  [R EXCEPT
        !.text = StoredText(t),
        !.instanceMatrix = mats,
        !.uvOffset = uvs,
        !.count = charIdx,
        !.needsUpdate = [R.needsUpdate EXCEPT !["instanceMatrix"] = TRUE,
                                              !["uvOffset"] = TRUE]]

\* the object right after super(...) and the attribute initialisation loop
FreshMesh(cap) ==
  [capacity |-> cap, count |-> cap, text |-> <<>>,
   instanceMatrix |-> [i \in 1..cap |-> Identity],
   uvOffset |-> [i \in 1..cap |-> ZeroUV],
   instanceColor |-> [i \in 1..cap |-> White],
   instanceOutlineColor |-> [i \in 1..cap |-> White],
   instanceThickness |-> [i \in 1..cap |-> DefaultThickness],
   instanceGlowMode |-> [i \in 1..cap |-> One],
   needsUpdate |-> [b \in Buffers |-> FALSE],
   gpu |-> [b \in Buffers |-> NoUpload]]

\* the sRGB transfer function on the 8-bit channel values 0..255, which
\* THREE.Color applies to a hex colour (c/255 <= 0.04045 ? c/255/12.92 :
\* ((c/255 + 0.055)/1.055)^2.4), times Den and rounded to the nearest unit
SRGBToLinear ==
  <<
   0, 0, 0, 1, 1, 1, 1, 2, 2, 2, 2, 3, 3, 3, 4, 4,
   4, 4, 5, 5, 6, 6, 6, 7, 7, 8, 8, 9, 9, 10, 10, 11,
   12, 12, 13, 13, 14, 15, 16, 16, 17, 18, 19, 19, 20, 21, 22, 23,
   24, 25, 26, 26, 27, 28, 30, 31, 32, 33, 34, 35, 36, 37, 39, 40,
   41, 42, 44, 45, 46, 48, 49, 50, 52, 53, 55, 56, 58, 59, 61, 63,
   64, 66, 68, 69, 71, 73, 74, 76, 78, 80, 82, 84, 86, 88, 90, 92,
   94, 96, 98, 100, 102, 104, 106, 109, 111, 113, 115, 118, 120, 122, 125, 127,
   130, 132, 135, 137, 140, 142, 145, 148, 150, 153, 156, 158, 161, 164, 167, 170,
   173, 176, 179, 182, 185, 188, 191, 194, 197, 200, 203, 207, 210, 213, 216, 220,
   223, 227, 230, 233, 237, 240, 244, 248, 251, 255, 259, 262, 266, 270, 274, 277,
   281, 285, 289, 293, 297, 301, 305, 309, 313, 317, 322, 326, 330, 334, 339, 343,
   347, 352, 356, 361, 365, 370, 374, 379, 383, 388, 393, 398, 402, 407, 412, 417,
   422, 427, 432, 437, 442, 447, 452, 457, 462, 467, 472, 478, 483, 488, 494, 499,
   505, 510, 516, 521, 527, 532, 538, 544, 549, 555, 561, 567, 573, 578, 584, 590,
   596, 602, 608, 615, 621, 627, 633, 639, 646, 652, 658, 665, 671, 677, 684, 691,
   697, 704, 710, 717, 724, 730, 737, 744, 751, 758, 765, 772, 779, 786, 793, 800 >>

\* new THREE.Color(hex): 8-bit sRGB channels to linear float components
ColorOf(hex) ==
  <<SRGBToLinear[hex[1] + 1], SRGBToLinear[hex[2] + 1], SRGBToLinear[hex[3] + 1]>>

\* uniforms of the ShaderMaterial built by the constructor (default options)
DefaultUniforms ==
  [globalColor |-> ColorOf(<<255, 255, 255>>),
   globalOutlineColor |-> ColorOf(<<0, 0, 0>>),
   globalThickness |-> FP(5, 10),
   globalOutlineThickness |-> 0,
   globalSmoothness |-> FP(5, 100),
   globalGlowMode |-> 0]
NoUniforms == [globalColor |-> <<>>]

NoCall == [op |-> "none"]
\* nothing compiled, nothing shaded yet
NoProgram == [compiled |-> FALSE]
NoFrag == [slot |-> -1, out |-> [path |-> "none"]]

Init ==
  /\ fontCache = [n \in Names |-> 0]
  /\ loads = [l \in 1..MaxLoads |-> [name |-> "", status |-> "unused", entry |-> 0]]
  /\ disposed = [x \in 1..MaxLoads |-> 0]
  /\ constructed = FALSE
  /\ thrown = "none"
  /\ font = "none"
  /\ material = "none"
  /\ capacity = 0
  /\ count = 0
  /\ _text = <<>>
  /\ instanceMatrix = <<>>
  /\ uvOffset = <<>>
  /\ instanceColor = <<>>
  /\ instanceOutlineColor = <<>>
  /\ instanceThickness = <<>>
  /\ instanceGlowMode = <<>>
  /\ needsUpdate = [b \in Buffers |-> FALSE]
  /\ uniforms = NoUniforms
  /\ ops = 0
  /\ last = NoCall
  /\ prev = [op |-> "none", grew |-> FALSE]
  /\ program = NoProgram
  /\ frag = NoFrag
  /\ gpu = [b \in Buffers |-> NoUpload]
  /\ rain = [made |-> FALSE]           \* no MatrixRain effect is created

\* ------------------------------------------------------- the font cache
\* getFont(name): the cached entry, or null (0)
GetFont(n) == fontCache[n]

\* a loadFont that skips the cache check and always fetches
LoadFontAlwaysFetching(l, n) ==
  /\ loads[l].status = "unused"
  /\ \A k \in 1..(l - 1) : loads[k].status # "unused"
  /\ loads' = [loads EXCEPT ![l] = [name |-> n, status |-> "pending", entry |-> 0]]
  /\ UNCHANGED <<fontCache, disposed, objVars, meshVars, ops, last, prev, gpuVars, rain>>

\* loadFont(name) on a cached name returns the entry without fetching;
\* otherwise both fetches are started and the call is suspended at the await
LoadFont(l, n) ==
  /\ loads[l].status = "unused"
  /\ \A k \in 1..(l - 1) : loads[k].status # "unused"
  /\ loads' = [loads EXCEPT ![l] =
                 [name |-> n,
                  status |-> IF fontCache[n] # 0 THEN "cached" ELSE "pending",
                  entry |-> fontCache[n]]]
  /\ UNCHANGED <<fontCache, disposed, objVars, meshVars, ops, last, prev, gpuVars, rain>>

\* both fetches succeeded: lines 51-53, the texture made by this call is
\* stored under the name
LoadResolve(l) ==
  /\ loads[l].status = "pending"
  /\ loads' = [loads EXCEPT ![l].status = "resolved", ![l].entry = l]
  /\ fontCache' = [fontCache EXCEPT ![loads[l].name] = l]
  /\ UNCHANGED <<disposed, objVars, meshVars, ops, last, prev, gpuVars, rain>>

\* a failed load that still stores what it fetched
LoadRejectStoring(l) ==
  /\ loads[l].status = "pending"
  /\ loads' = [loads EXCEPT ![l].status = "rejected"]
  /\ fontCache' = [fontCache EXCEPT ![loads[l].name] = l]
  /\ UNCHANGED <<disposed, objVars, meshVars, ops, last, prev, gpuVars, rain>>

\* a fetch failed (the image loader's onError, or fetch()/res.json()
\* rejecting): Promise.all rejects and the call ends at the await
LoadReject(l) ==
  /\ loads[l].status = "pending"
  /\ loads' = [loads EXCEPT ![l].status = "rejected"]
  /\ UNCHANGED <<fontCache, disposed, objVars, meshVars, ops, last, prev, gpuVars, rain>>

\* a clear that drops the entries without releasing their textures
ClearFontCacheLeaking ==
  /\ \E n \in Names : fontCache[n] # 0
  /\ fontCache' = [n \in Names |-> 0]
  /\ UNCHANGED <<disposed, loads, objVars, meshVars, ops, last, prev, gpuVars, rain>>

\* every entry's texture is disposed, then the map is emptied
ClearFontCache ==
  /\ \E n \in Names : fontCache[n] # 0
  /\ disposed' = [x \in DOMAIN disposed |->
                    disposed[x] + Cardinality({n \in Names : fontCache[n] = x})]
  /\ fontCache' = [n \in Names |-> 0]
  /\ UNCHANGED <<loads, objVars, meshVars, ops, last, prev, gpuVars, rain>>

\* ------------------------------------------------------- the constructor
\* the values the font option takes: a name, an object with or without its
\* texture and data fields, or nothing
FontRefs ==
  {[kind |-> "name", name |-> n] : n \in Names}
  \cup {[kind |-> "object", texture |-> tx, data |-> d] :
          tx \in BOOLEAN, d \in {"a10", "a5", "none"}}
  \cup {[kind |-> "null"]}

\* lines 89-102: the atlas of fontData, or the error thrown
ResolveFont(fref) ==
  IF fref.kind = "name"
  THEN IF GetFont(fref.name) # 0
       THEN [ok |-> TRUE, atlas |-> AtlasOfName(fref.name)]
       ELSE [ok |-> FALSE, error |-> "NotLoaded"]
  ELSE IF fref.kind = "object" /\ fref.texture /\ fref.data # "none"
       THEN [ok |-> TRUE, atlas |-> fref.data]
       ELSE [ok |-> FALSE, error |-> "Configuration"]

\* line 104: maxLength || Math.max(text.length, 100); 0 stands for null too
InitialCapacity(maxLength, t) ==
  IF maxLength # 0 THEN maxLength ELSE Max(Len(t), DefaultCapacity)

\* lines 111-119: with a material option the constructor calls
\* this._injectMSDFIntoMaterial(...) before super(...); a derived-class
\* constructor that touches this before super() throws a ReferenceError
MaterialStep(mat) ==
  IF mat THEN [ok |-> FALSE, error |-> "ReferenceError"] ELSE [ok |-> TRUE]

\* lines 185-188: if (text) this.setText(text)
InitialText(M, a, t) == IF t # <<>> THEN SetTextOn(M, a, t, DefaultOptions) ELSE M

\* o: the fontSize and align entries of the options object; lines 78-87 do
\* not destructure them and nothing else reads them
Construct(fref, t, maxLength, mat, o) ==
  /\ last = NoCall                       \* one constructor call is modelled
  /\ last' = [op |-> "construct", font |-> fref, text |-> t,
              maxLength |-> maxLength, material |-> mat, options |-> o]
  /\ LET f == ResolveFont(fref)
         m == MaterialStep(mat)
     IN  IF ~f.ok
         THEN /\ thrown' = f.error
              /\ UNCHANGED <<constructed, font, material, uniforms, meshVars>>
         ELSE IF ~m.ok
         THEN /\ thrown' = m.error
              /\ UNCHANGED <<constructed, font, material, uniforms, meshVars>>
         ELSE /\ thrown' = "none"
              /\ constructed' = TRUE
              /\ font' = f.atlas
              /\ material' = "shader"
              /\ uniforms' = DefaultUniforms
              /\ SetMesh(InitialText(FreshMesh(InitialCapacity(maxLength, t)),
                                     f.atlas, t))
  /\ UNCHANGED <<cacheVars, ops, prev, gpuVars, rain>>

\* ------------------------------------------------- operations on the object
Step ==
  /\ constructed
  /\ ops < MaxOps
  /\ ops' = ops + 1
  /\ prev' = [op |-> last.op, grew |-> last.op = "setText" /\ last.grew]
  /\ UNCHANGED <<gpuVars, rain>>

SetText(t, o) ==
  /\ Step
  /\ SetMesh(SetTextOn(Mesh, font, t, o))
  /\ last' = [op |-> "setText", text |-> t, options |-> o,
              grew |-> Len(t) > capacity,
              again |-> /\ last.op = "setText"
                        /\ last.text = t
                        /\ last.options = o]
  /\ UNCHANGED <<cacheVars, objVars>>

\* getText(), getLength()
GetText == _text
GetLength == count

\* an index guard that is off by one at the upper end
IndexOkInclusive(index, cnt) == ~(index < 0 \/ index > cnt)

\* if (index < 0 || index >= this.count) return
IndexOk(index, cnt) == ~(index < 0 \/ index >= cnt)

\* writes of one per-character setter
Put(arr, index, v) == [arr EXCEPT ![index + 1] = v]
\* geometry.attributes.<b>.needsUpdate = true
Mark(b) == [needsUpdate EXCEPT ![b] = TRUE]

SetCharacterColor(index, color, alpha) ==
  /\ Step
  /\ last' = [op |-> "setCharacterColor", index |-> index]
  /\ IF IndexOk(index, count)
     THEN /\ instanceColor' = Put(instanceColor, index, ColorOf(color) \o <<alpha>>)
          /\ needsUpdate' = Mark("instanceColor")
     ELSE UNCHANGED <<instanceColor, needsUpdate>>
  /\ UNCHANGED <<gpu, capacity, count, _text, instanceMatrix, uvOffset,
                 instanceOutlineColor, instanceThickness, instanceGlowMode,
                 cacheVars, objVars>>

SetCharacterOutlineColor(index, color, alpha) ==
  /\ Step
  /\ last' = [op |-> "setCharacterOutlineColor", index |-> index]
  /\ IF IndexOk(index, count)
     THEN /\ instanceOutlineColor' =
               Put(instanceOutlineColor, index, ColorOf(color) \o <<alpha>>)
          /\ needsUpdate' = Mark("instanceOutlineColor")
     ELSE UNCHANGED <<instanceOutlineColor, needsUpdate>>
  /\ UNCHANGED <<gpu, capacity, count, _text, instanceMatrix, uvOffset,
                 instanceColor, instanceThickness, instanceGlowMode,
                 cacheVars, objVars>>

SetCharacterThickness(index, thickness, outlineThickness) ==
  /\ Step
  /\ last' = [op |-> "setCharacterThickness", index |-> index]
  /\ IF IndexOk(index, count)
     THEN /\ instanceThickness' =
               Put(instanceThickness, index, <<thickness, outlineThickness>>)
          /\ needsUpdate' = Mark("instanceThickness")
     ELSE UNCHANGED <<instanceThickness, needsUpdate>>
  /\ UNCHANGED <<gpu, capacity, count, _text, instanceMatrix, uvOffset,
                 instanceColor, instanceOutlineColor, instanceGlowMode,
                 cacheVars, objVars>>

SetCharacterGlowMode(index, enableGlow) ==
  /\ Step
  /\ last' = [op |-> "setCharacterGlowMode", index |-> index]
  /\ IF IndexOk(index, count)
     THEN /\ instanceGlowMode' =
               Put(instanceGlowMode, index, IF enableGlow THEN One ELSE 0)
          /\ needsUpdate' = Mark("instanceGlowMode")
     ELSE UNCHANGED <<instanceGlowMode, needsUpdate>>
  /\ UNCHANGED <<gpu, capacity, count, _text, instanceMatrix, uvOffset,
                 instanceColor, instanceOutlineColor, instanceThickness,
                 cacheVars, objVars>>

\* the global setters write one uniform each
SetUniform(name, field, v) ==
  /\ Step
  /\ last' = [op |-> name]
  /\ uniforms' = [uniforms EXCEPT ![field] = v]
  /\ UNCHANGED <<cacheVars, meshVars, constructed, thrown, font, material>>

SetGlobalColor(color) == SetUniform("setGlobalColor", "globalColor", ColorOf(color))
SetGlobalOutlineColor(color) ==
  SetUniform("setGlobalOutlineColor", "globalOutlineColor", ColorOf(color))
SetGlobalThickness(v) == SetUniform("setGlobalThickness", "globalThickness", v)
SetGlobalOutlineThickness(v) ==
  SetUniform("setGlobalOutlineThickness", "globalOutlineThickness", v)
SetGlobalGlowMode(v) == SetUniform("setGlobalGlowMode", "globalGlowMode", v)
EnableGlow == SetUniform("enableGlow", "globalGlowMode", One)
DisableGlow == SetUniform("disableGlow", "globalGlowMode", 0)

\* a reset that stops at the live count
ResetCharacterAttributesLive ==
  /\ Step
  /\ last' = [op |-> "resetCharacterAttributes"]
  /\ instanceColor' = [i \in DOMAIN instanceColor |->
                         IF i <= count THEN White ELSE instanceColor[i]]
  /\ instanceOutlineColor' = [i \in DOMAIN instanceOutlineColor |->
                         IF i <= count THEN White ELSE instanceOutlineColor[i]]
  /\ instanceThickness' = [i \in DOMAIN instanceThickness |->
                         IF i <= count THEN DefaultThickness ELSE instanceThickness[i]]
  /\ instanceGlowMode' = [i \in DOMAIN instanceGlowMode |->
                         IF i <= count THEN One ELSE instanceGlowMode[i]]
  /\ needsUpdate' = [b \in Buffers |->
                       IF b \in {"instanceMatrix", "uvOffset"} THEN needsUpdate[b]
                       ELSE TRUE]
  /\ UNCHANGED <<gpu, capacity, count, _text, instanceMatrix, uvOffset, cacheVars, objVars>>

\* resetCharacterAttributes(): for (let i = 0; i < this.capacity; i++)
ResetCharacterAttributes ==
  /\ Step
  /\ last' = [op |-> "resetCharacterAttributes"]
  /\ instanceColor' = [i \in DOMAIN instanceColor |->
                         IF i <= capacity THEN White ELSE instanceColor[i]]
  /\ instanceOutlineColor' = [i \in DOMAIN instanceOutlineColor |->
                         IF i <= capacity THEN White ELSE instanceOutlineColor[i]]
  /\ instanceThickness' = [i \in DOMAIN instanceThickness |->
                         IF i <= capacity THEN DefaultThickness ELSE instanceThickness[i]]
  /\ instanceGlowMode' = [i \in DOMAIN instanceGlowMode |->
                         IF i <= capacity THEN One ELSE instanceGlowMode[i]]
  /\ needsUpdate' = [b \in Buffers |->
                       IF b \in {"instanceMatrix", "uvOffset"} THEN needsUpdate[b]
                       ELSE TRUE]
  /\ UNCHANGED <<gpu, capacity, count, _text, instanceMatrix, uvOffset, cacheVars, objVars>>

\* ------------------------------------------------- the renderer's uploads
\* the array of a per-slot buffer
Content(b) ==
  IF b = "instanceMatrix" THEN instanceMatrix
  ELSE IF b = "uvOffset" THEN uvOffset
  ELSE IF b = "instanceColor" THEN instanceColor
  ELSE IF b = "instanceOutlineColor" THEN instanceOutlineColor
  ELSE IF b = "instanceThickness" THEN instanceThickness
  ELSE instanceGlowMode

\* what the renderer uploads: an attribute object without GL buffer gets one
\* created from its array, one whose version advanced (needsUpdate = true)
\* is written again
\* renderer.render(scene, camera) with the text object in the scene
Upload ==
  /\ constructed
  /\ gpu' = [b \in Buffers |->
               IF needsUpdate[b] \/ ~gpu[b].has
               THEN [has |-> TRUE, data |-> Content(b)] ELSE gpu[b]]
  /\ needsUpdate' = [b \in Buffers |-> FALSE]
  /\ UNCHANGED <<capacity, count, _text, instanceMatrix, uvOffset, instanceColor,
                 instanceOutlineColor, instanceThickness, instanceGlowMode,
                 cacheVars, objVars, ops, last, prev, gpuVars, rain>>

\* ------------------------------------------------------- the shaders
Min(a, b) == IF a <= b THEN a ELSE b
Abs(x) == IF x < 0 THEN 0 - x ELSE x
Sign(x) == IF x < 0 THEN 0 - 1 ELSE 1

\* A GLSL float is an IEEE 754 binary32 number, held as <<s, m, e>> with the
\* value s * m * 2^e: s is 1 or -1; a finite number other than zero has
\* 2^23 <= m < 2^24 (a subnormal is held normalised as well); zero is
\* <<s, 0, 0>>, an infinity <<s, 2^23, InfExp>> and NaN <<1, 0, InfExp>>.
\* Every operation rounds to the nearest float, ties to even.
P2(k) == 2^k
InfExp == 1000
NaN == <<1, 0, InfExp>>
Inf(s) == <<s, P2(23), InfExp>>
Zero(s) == <<s, 0, 0>>
IsNaN(x) == x[2] = 0 /\ x[3] = InfExp
IsInf(x) == x[2] # 0 /\ x[3] = InfExp
IsZero(x) == x[2] = 0 /\ x[3] # InfExp

\* the number of binary digits of n, 0 <= n < 2^31
BitLen(n) ==
  LET Ones(d) == IF n \div P2(d) >= 2 THEN d + 2 ELSE d + 1
      Twos(c) == Ones(IF n \div P2(c) >= 4 THEN c + 2 ELSE c)
      Fours(b) == Twos(IF n \div P2(b) >= 16 THEN b + 4 ELSE b)
      Eights(a) == Fours(IF n \div P2(a) >= 256 THEN a + 8 ELSE a)
  IN  IF n = 0 THEN 0 ELSE Eights(IF n >= 65536 THEN 16 ELSE 0)

\* the float nearest to s * M * 2^e, 0 < M < 2^30; an odd M may stand for a
\* value slightly off M (the digits cut off below it were not all zero).
\* The result has 24 digits, fewer below 2^-126 where the floats are
\* 2^-149 apart, and is an infinity from 2^128 on
Round(s, M, e) ==
  LET Ranged(r) == IF r[2] # 0 /\ r[3] > 104 THEN Inf(s) ELSE r
      \* n * 2^k for 0 < n <= 2^24 of L digits, which a float holds exactly
      Normal(n, k, L) ==
        Ranged(IF L <= 24 THEN <<s, n * P2(24 - L), k - (24 - L)>>
               ELSE <<s, n \div 2, k + 1>>)
      Kept(q, k) == IF q = 0 THEN Zero(s) ELSE Normal(q, k, BitLen(q))
      \* q digits kept, rem cut off below them, half the weight of the last
      Nearest(q, rem, half, k) ==
        Kept(IF rem > half \/ (rem = half /\ q % 2 = 1) THEN q + 1 ELSE q, k)
      Cut(L, drop) ==
        IF drop <= 0 THEN Normal(M, e, L)
        ELSE Nearest(M \div P2(drop), M % P2(drop), P2(drop - 1), e + drop)
      Digits(L, p) == IF p < 0 THEN Zero(s) ELSE Cut(L, L - p)
      Of(L) == Digits(L, Min(24, e + L + 149))
  IN  Of(BitLen(M))

\* M with its last digit set when digits were cut off below it
Jam(M, cut) == IF cut /\ M % 2 = 0 THEN M + 1 ELSE M

\* an integer as a float, |n| < 2^30
FromInt(n) == IF n = 0 THEN Zero(1) ELSE Round(Sign(n), Abs(n), 0)

\* |x| < |y| for two numbers other than NaN and zero
MagLess(x, y) == x[3] < y[3] \/ (x[3] = y[3] /\ x[2] < y[2])

\* x < y; false when either is NaN
Less(x, y) ==
  LET sx == IF x[2] = 0 THEN 0 ELSE x[1]
      sy == IF y[2] = 0 THEN 0 ELSE y[1]
  IN  /\ ~IsNaN(x) /\ ~IsNaN(y)
      /\ IF sx # sy THEN sx < sy
         ELSE IF sx = 0 THEN FALSE
         ELSE IF sx = 1 THEN MagLess(x, y)
         ELSE MagLess(y, x)

\* x * y
FMul(x, y) ==
  LET s == x[1] * y[1]
      xH == x[2] \div 4096
      xL == x[2] % 4096
      yH == y[2] \div 4096
      yL == y[2] % 4096
      cross == xH * yL + xL * yH
      low == (cross % 4096) * 4096 + xL * yL
      hi == xH * yH + cross \div 4096 + low \div P2(24)
      lo == low % P2(24)
  IN  IF IsNaN(x) \/ IsNaN(y) THEN NaN
      ELSE IF IsInf(x) \/ IsInf(y)
           THEN (IF IsZero(x) \/ IsZero(y) THEN NaN ELSE Inf(s))
      ELSE IF IsZero(x) \/ IsZero(y) THEN Zero(s)
      ELSE Round(s, Jam(hi * 64 + lo \div P2(18), lo % P2(18) # 0),
                 x[3] + y[3] + 18)

\* x / y
FDiv(x, y) ==
  LET s == x[1] * y[1]
      b == y[2]
      r0 == x[2] % b
      r1 == (r0 * 128) % b
      r2 == (r1 * 128) % b
      r3 == (r2 * 128) % b
      r4 == (r3 * 128) % b
      q == ((((x[2] \div b) * 128 + (r0 * 128) \div b) * 128
              + (r1 * 128) \div b) * 128 + (r2 * 128) \div b) * 128
              + (r3 * 128) \div b
  IN  IF IsNaN(x) \/ IsNaN(y) THEN NaN
      ELSE IF IsInf(x) THEN (IF IsInf(y) THEN NaN ELSE Inf(s))
      ELSE IF IsInf(y) THEN Zero(s)
      ELSE IF IsZero(y) THEN (IF IsZero(x) THEN NaN ELSE Inf(s))
      ELSE IF IsZero(x) THEN Zero(s)
      ELSE Round(s, Jam(2 * q, r4 # 0), x[3] - y[3] - 29)

\* x + y
FAdd(x, y) ==
  LET big == IF MagLess(x, y) THEN y ELSE x
      small == IF MagLess(x, y) THEN x ELSE y
      d == big[3] - small[3]
      A == big[2] * 32
      B == IF d >= 30 THEN 1
           ELSE Jam((small[2] * 32) \div P2(d), (small[2] * 32) % P2(d) # 0)
      M == IF x[1] = y[1] THEN A + B ELSE A - B
  IN  IF IsNaN(x) \/ IsNaN(y) THEN NaN
      ELSE IF IsInf(x) THEN (IF IsInf(y) /\ x[1] # y[1] THEN NaN ELSE x)
      ELSE IF IsInf(y) THEN y
      ELSE IF IsZero(x) THEN (IF IsZero(y) /\ x[1] # y[1] THEN Zero(1) ELSE y)
      ELSE IF IsZero(y) THEN x
      ELSE IF M = 0 THEN Zero(1)
      ELSE Round(big[1], M, big[3] - 5)

\* x - y
FSub(x, y) == FAdd(x, IF IsNaN(y) THEN y ELSE <<0 - y[1], y[2], y[3]>>)
\* GLSL min and max
min(x, y) == IF Less(y, x) THEN y ELSE x
max(x, y) == IF Less(x, y) THEN y ELSE x

\* a uniform, an attribute or a texel, held as value * Den, as the float the
\* fragment shader reads; a decimal literal n / d of the shader source
ToFloat(v) == FDiv(FromInt(v), FromInt(Den))
ToFloatVec(x) == [k \in 1..3 |-> ToFloat(x[k])]
Literal(n, d) == FDiv(FromInt(n), FromInt(d))
FOne == <<1, P2(23), 0 - 23>>
FHalf == <<1, P2(23), 0 - 24>>

\* GLSL clamp(x, lo, hi) = min(max(x, lo), hi).  What min and max return for
\* a NaN is left to the implementation: und is NaN where they pass it on and
\* lo where they drop it
clamp(x, lo, hi, und) == IF IsNaN(x) THEN und ELSE min(max(x, lo), hi)
\* GLSL smoothstep(edge0, edge1, x)
smoothstep(edge0, edge1, x, und) ==
  LET Hermite(t) == FMul(FMul(t, t), FSub(FromInt(3), FMul(FromInt(2), t)))
  IN  Hermite(clamp(FDiv(FSub(x, edge0), FSub(edge1, edge0)),
                    Zero(1), FOne, und))
\* GLSL mix(x, y, a) and the component-wise product, on rgb triples
mix(x, y, a) ==
  [k \in 1..3 |-> FAdd(FMul(x[k], FSub(FOne, a)), FMul(y[k], a))]
MulVec(x, y) == [k \in 1..3 |-> FMul(x[k], y[k])]

\* a median that forgets the blue channel's upper bound
medianOfTwo(r, g, b) == max(min(r, g), b)

\* shaders.js: float median(float r, float g, float b)
median(r, g, b) == max(min(r, g), min(max(r, g), b))

\* the copy of median spliced into a host fragment shader
medianSpliced(r, g, b) == max(min(r, g), min(max(r, g), b))

\* w = max(pixelDist, 0.0001)
MinW == Literal(1, 10000)

\* the vertex shader hands slot i's attributes to the fragment shader
VaryingsOf(i) ==
  [vColor |-> instanceColor[i + 1],
   vOutlineColor |-> instanceOutlineColor[i + 1],
   vThickness |-> instanceThickness[i + 1],
   vGlowMode |-> instanceGlowMode[i + 1]]

\* finalGlowMode: shaders.js line 74 sets the constant 1. (the product is
\* commented out); the spliced shader takes globalGlowMode * vInstanceGlowMode
FinalGlowMode(path, U, V) ==
  IF path = "default" THEN FOne
  ELSE FMul(ToFloat(U.globalGlowMode), ToFloat(V.vGlowMode))

\* a thickness taken from the instance alone
FinalThicknessReplacing(U, V) == ToFloat(V.vThickness[1])

\* finalThickness, finalOutlineThickness, fillColor, outlineColorFinal: the
\* same four lines in both shaders
FinalThickness(U, V) ==
  FMul(ToFloat(U.globalThickness), ToFloat(V.vThickness[1]))
FinalOutlineThickness(U, V) ==
  FMul(ToFloat(U.globalOutlineThickness), ToFloat(V.vThickness[2]))
FillColor(U, V) ==
  MulVec(ToFloatVec(U.globalColor), ToFloatVec(SubSeq(V.vColor, 1, 3)))
OutlineColorFinal(U, V) ==
  MulVec(ToFloatVec(U.globalOutlineColor),
         ToFloatVec(SubSeq(V.vOutlineColor, 1, 3)))

\* coverage of the edge at distance value edge: clamp, then smoothstep
EdgeAlpha(sd, edge, w, smoothness, und) ==
  smoothstep(FSub(FHalf, smoothness), FAdd(FHalf, smoothness),
             clamp(FAdd(FDiv(FSub(sd, edge), w), FHalf), Zero(1), FOne, und),
             und)

\* a discard test that also drops the boundary value
DiscardInclusive(alpha) ==
  Less(alpha, Literal(1, 100)) \/ alpha = Literal(1, 100)

\* if (finalAlpha < 0.01) discard;       (default shader)
Discard(alpha) == Less(alpha, Literal(1, 100))

\* if (msdfAlpha < 0.01) discard;        (spliced shader)
DiscardSpliced(alpha) == Less(alpha, Literal(1, 100))

\* the HARD OUTLINE branch
HardOutline(fill, outline, innerAlpha, outerAlpha, a) ==
  [color |-> mix(fill, outline, FMul(outerAlpha, FSub(FOne, innerAlpha))),
   alpha |-> FMul(outerAlpha, a)]

\* edgeDist = (sd - outerEdge) / (innerEdge - outerEdge);
\* fadeAmount = smoothstep(0.0, 1.0, edgeDist).  Where the two edges are the
\* same float the divisor is zero: edgeDist is -Inf below the edge and +Inf
\* above it, and 0.0 / 0.0 = NaN on it
FadeAmount(sd, innerEdge, outerEdge, und) ==
  smoothstep(Zero(1), FOne,
             FDiv(FSub(sd, outerEdge), FSub(innerEdge, outerEdge)), und)

\* the GLOW branch
Glow(fill, outline, innerAlpha, sd, innerEdge, outerEdge, a, und) ==
  LET Faded(fadeAmount) ==
        [color |-> outline, alpha |-> FMul(FMul(fadeAmount, fadeAmount), a)]
  IN  IF Less(FHalf, innerAlpha)
      THEN [color |-> fill, alpha |-> FMul(FOne, a)]
      ELSE Faded(FadeAmount(sd, innerEdge, outerEdge, und))

\* main() of the fragment shader on one pixel: path "default" is
\* msdfFragmentShader, path "splice" the block spliced after
\* <dithering_fragment>; px is the texture sample, the screen-space distance
\* and, for the spliced block, the host material's gl_FragColor.  U, V and
\* px are in units of 1/Den, every computed field is a float
Fragment(path, U, V, px, und) ==
  LET \* the discard test and gl_FragColor
      Written(a, b, r, discarded) ==
        [path |-> path, U |-> U, V |-> V, px |-> px,
         sd |-> a.sd,
         w |-> a.w,
         finalThickness |-> a.finalThickness,
         finalOutlineThickness |-> a.finalOutlineThickness,
         finalGlowMode |-> a.finalGlowMode,
         fillColor |-> a.fillColor,
         outlineColorFinal |-> a.outlineColorFinal,
         innerAlpha |-> b.innerAlpha,
         outerAlpha |-> b.outerAlpha,
         mode |-> IF Less(FHalf, a.finalGlowMode) THEN "glow" ELSE "hard",
         color |-> r.color,
         alpha |-> r.alpha,
         discarded |-> discarded,
         fragColor |-> IF discarded THEN <<>>
                       ELSE IF path = "default" THEN r.color \o <<r.alpha>>
                       ELSE MulVec(r.color, ToFloatVec(SubSeq(px.host, 1, 3)))
                              \o <<FMul(r.alpha, ToFloat(px.host[4]))>>]
      Blended(a, b, r) ==
        Written(a, b, r, IF path = "default" THEN Discard(r.alpha)
                         ELSE DiscardSpliced(r.alpha))
      \* if (finalGlowMode > 0.5) the GLOW branch, else HARD OUTLINE
      Covered(a, b) ==
        Blended(a, b,
                IF Less(FHalf, a.finalGlowMode)
                THEN Glow(a.fillColor, a.outlineColorFinal, b.innerAlpha,
                          a.sd, b.innerEdge, b.outerEdge, a.vAlpha, und)
                ELSE HardOutline(a.fillColor, a.outlineColorFinal,
                                 b.innerAlpha, b.outerAlpha, a.vAlpha))
      \* innerAlpha and outerAlpha
      Edged(a, innerEdge, outerEdge) ==
        Covered(a, [innerEdge |-> innerEdge,
                    outerEdge |-> outerEdge,
                    innerAlpha |-> EdgeAlpha(a.sd, innerEdge, a.w,
                                             a.smoothness, und),
                    outerAlpha |-> EdgeAlpha(a.sd, outerEdge, a.w,
                                             a.smoothness, und)])
      \* innerEdge = finalThickness;
      \* outerEdge = finalThickness - finalOutlineThickness
      Read(a) ==
        Edged(a, a.finalThickness,
              FSub(a.finalThickness, a.finalOutlineThickness))
  IN  Read([sd |-> IF path = "default"
                   THEN median(ToFloat(px.msd[1]), ToFloat(px.msd[2]),
                               ToFloat(px.msd[3]))
                   ELSE medianSpliced(ToFloat(px.msd[1]), ToFloat(px.msd[2]),
                                      ToFloat(px.msd[3])),
            w |-> max(ToFloat(px.pixelDist), MinW),
            smoothness |-> ToFloat(U.globalSmoothness),
            finalThickness |-> FinalThickness(U, V),
            finalOutlineThickness |-> FinalOutlineThickness(U, V),
            finalGlowMode |-> FinalGlowMode(path, U, V),
            fillColor |-> FillColor(U, V),
            outlineColorFinal |-> OutlineColorFinal(U, V),
            vAlpha |-> ToFloat(V.vColor[4])])

\* onBeforeCompile(shader): four String.replace calls, each of which inserts
\* its block after its #include marker when the host source has the marker
\* and returns the source unchanged when it has not; nothing is thrown
OnBeforeCompile(h) ==
  /\ frag = NoFrag                       \* the material compiles before it draws
  /\ program' = [compiled |-> TRUE,
                 host |-> h,
                 vertexDeclarations |-> h.vertexCommon,
                 vertexUv |-> h.uvVertex,
                 fragmentDeclarations |-> h.fragmentCommon,
                 fragmentShading |-> h.ditheringFragment,
                 error |-> "none"]
  /\ UNCHANGED <<cacheVars, objVars, meshVars, ops, last, prev, frag, rain>>

\* the renderer draws instance i of the text object with its own material
Render(i, px, und) ==
  /\ frag = NoFrag                       \* one shaded fragment is recorded
  /\ constructed
  /\ i >= 0 /\ i < count
  /\ frag' = [slot |-> i, out |-> Fragment("default", uniforms, VaryingsOf(i), px, und)]
  /\ UNCHANGED <<cacheVars, objVars, meshVars, ops, last, prev, program, rain>>

\* one evaluation of a fragment program on given uniforms, varyings and pixel
Shade(path, U, V, px, und) ==
  /\ frag = NoFrag                       \* one shaded fragment is recorded
  /\ program = NoProgram                 \* the programs on their own
  /\ frag' = [slot |-> -1, out |-> Fragment(path, U, V, px, und)]
  /\ UNCHANGED <<cacheVars, objVars, meshVars, ops, last, prev, program, rain>>

\* ------------------------------------------------------- JavaScript numbers
\* A natural number of any size is the tuple of its digits to the base
\* Limb = 2^14, lowest first, without leading zero digits; zero is << >>.
Limb == 16384
RECURSIVE Trim(_)
Trim(x) ==
  IF x = <<>> THEN x
  ELSE IF x[Len(x)] = 0 THEN Trim(SubSeq(x, 1, Len(x) - 1)) ELSE x
Digit(x, i) == IF i <= Len(x) THEN x[i] ELSE 0
\* the number of binary digits
BigLen(x) == IF x = <<>> THEN 0 ELSE 14 * (Len(x) - 1) + BitLen(x[Len(x)])
\* x * 2^k
BigShl(x, k) ==
  LET q == k \div 14
      f == P2(k % 14)
  IN  Trim([i \in 1..(Len(x) + q + 1) |->
              IF i <= q THEN 0
              ELSE (IF i - q <= Len(x) THEN (x[i - q] * f) % Limb ELSE 0)
                   + (IF i - q >= 2 THEN (x[i - q - 1] * f) \div Limb ELSE 0)])
\* x \div 2^k
BigShr(x, k) ==
  LET q == k \div 14
      r == k % 14
  IN  IF Len(x) <= q THEN <<>>
      ELSE Trim([i \in 1..(Len(x) - q) |->
                   x[i + q] \div P2(r)
                   + (IF i + q + 1 <= Len(x)
                      THEN (x[i + q + 1] % P2(r)) * P2(14 - r) ELSE 0)])
\* x + y
BigAdd(x, y) ==
  LET RECURSIVE From(_, _)
      From(i, c) ==
        IF i > Len(x) /\ i > Len(y) THEN (IF c = 0 THEN <<>> ELSE <<c>>)
        ELSE LET t == Digit(x, i) + Digit(y, i) + c
             IN  <<t % Limb>> \o From(i + 1, t \div Limb)
  IN  From(1, 0)
\* x - y for x >= y
BigSub(x, y) ==
  LET RECURSIVE From(_, _)
      From(i, c) ==
        IF i > Len(x) THEN <<>>
        ELSE LET t == Digit(x, i) - Digit(y, i) - c
             IN  <<IF t < 0 THEN t + Limb ELSE t>>
                   \o From(i + 1, IF t < 0 THEN 1 ELSE 0)
  IN  Trim(From(1, 0))
\* x < y
BigLess(x, y) ==
  LET RECURSIVE From(_)
      From(i) ==
        IF i = 0 THEN FALSE
        ELSE IF x[i] # y[i] THEN x[i] < y[i]
        ELSE From(i - 1)
  IN  IF Len(x) # Len(y) THEN Len(x) < Len(y) ELSE From(Len(x))
\* x * y for numbers of at most four digits each
BigMul(x, y) ==
  LET RECURSIVE Column(_, _)
      Column(k, i) ==
        IF i > Len(x) THEN 0
        ELSE (IF k - i >= 0 /\ k - i < Len(y) THEN x[i] * y[k - i + 1] ELSE 0)
             + Column(k, i + 1)
      RECURSIVE From(_, _)
      From(k, c) ==
        IF k > Len(x) + Len(y) THEN <<>>
        ELSE LET t == Column(k, 1) + c
             IN  <<t % Limb>> \o From(k + 1, t \div Limb)
  IN  Trim(From(1, 0))
\* x / 2^k to the nearest natural number, ties to even, k >= 1
BigRound(x, k) ==
  LET at == (k - 1) \div 14 + 1
      half == (Digit(x, at) \div P2((k - 1) % 14)) % 2 = 1
      below == \E i \in 1..Len(x) :
                 \/ i < at /\ x[i] # 0
                 \/ i = at /\ x[i] % P2((k - 1) % 14) # 0
      Nearest(q) ==
        IF half /\ (below \/ Digit(q, 1) % 2 = 1) THEN BigAdd(q, <<1>>) ELSE q
  IN  Nearest(BigShr(x, k))

\* A JavaScript number is an IEEE 754 binary64 number, held as <<s, m, e>>
\* with the value s * m * 2^e: s is 1 or -1, m a natural number of 53
\* binary digits, or << >> for zero (with e = 0).  The numbers of the effect
\* stay far inside the range of the format, so no infinity, NaN or subnormal
\* is held.  Every operation rounds to the nearest number, ties to even.
\* The number of p binary digits nearest to s * M * 2^e, M > 0:
RoundTo(p, s, M, e) ==
  LET Fit(q, drop) ==
        IF BigLen(q) > p THEN <<s, BigShr(q, 1), e + drop + 1>>
        ELSE <<s, q, e + drop>>
      Cut(drop) ==
        IF drop <= 0 THEN <<s, BigShl(M, 0 - drop), e + drop>>
        ELSE Fit(BigRound(M, drop), drop)
  IN  Cut(BigLen(M) - p)
\* n / d for integers n and d, |n| < 2^31, 0 < d <= 2^17: an integer (d = 1),
\* a decimal literal, or the quotient of two integers
DRatio(n, d) ==
  LET \* <<quotient, remainder>> of the digits of N from i down, after r
      RECURSIVE From(_, _, _)
      From(N, i, r) ==
        IF i = 0 THEN <<<<>>, r>>
        ELSE LET Joined(t, rest) == <<Append(rest[1], t \div d), rest[2]>>
                 Divided(t) == Joined(t, From(N, i - 1, t % d))
             IN  Divided(r * Limb + N[i])
      Nearest(qr) ==
        RoundTo(53, Sign(n),
                BigAdd(BigShl(Trim(qr[1]), 1),
                       IF qr[2] = 0 THEN <<>> ELSE <<1>>), 0 - 85)
      Long(N) == Nearest(From(N, Len(N), 0))
      Of(a) ==
        Long(BigShl(Trim(<<a % Limb, (a \div Limb) % Limb,
                           a \div (Limb * Limb)>>), 84))
  IN  IF n = 0 THEN <<1, <<>>, 0>> ELSE Of(Abs(n))
\* -x
DNeg(x) == IF x[2] = <<>> THEN x ELSE <<0 - x[1], x[2], x[3]>>
\* x * y
DMul(x, y) ==
  IF x[2] = <<>> \/ y[2] = <<>> THEN <<1, <<>>, 0>>
  ELSE RoundTo(53, x[1] * y[1], BigMul(x[2], y[2]), x[3] + y[3])
\* x + y
DAdd(x, y) ==
  LET \* |big| = A * 2^e and |small| = B * 2^e; a small number far below the
      \* big one counts as one digit cut off below it
      Sum(big, small, A, B, e) ==
        IF x[1] = y[1] THEN RoundTo(53, x[1], BigAdd(A, B), e)
        ELSE IF A = B THEN <<1, <<>>, 0>>
        ELSE RoundTo(53, IF BigLess(A, B) THEN small[1] ELSE big[1],
                     IF BigLess(A, B) THEN BigSub(B, A) ELSE BigSub(A, B), e)
      Aligned(big, small, far) ==
        Sum(big, small,
            BigShl(big[2], IF far THEN 3 ELSE big[3] - small[3]),
            IF far THEN <<1>> ELSE small[2],
            IF far THEN big[3] - 3 ELSE small[3])
      Ordered(big, small) == Aligned(big, small, big[3] - small[3] > 120)
  IN  IF x[2] = <<>> THEN y
      ELSE IF y[2] = <<>> THEN x
      ELSE Ordered(IF x[3] >= y[3] THEN x ELSE y,
                   IF x[3] >= y[3] THEN y ELSE x)
\* x - y
DSub(x, y) == DAdd(x, DNeg(y))
\* x < y
DLess(x, y) ==
  LET sx == IF x[2] = <<>> THEN 0 ELSE x[1]
      sy == IF y[2] = <<>> THEN 0 ELSE y[1]
      magLess(a, b) == a[3] < b[3] \/ (a[3] = b[3] /\ BigLess(a[2], b[2]))
  IN  IF sx # sy THEN sx < sy
      ELSE IF sx = 0 THEN FALSE
      ELSE IF sx = 1 THEN magLess(x, y)
      ELSE magLess(y, x)
\* what a Float32Array element holds after the number x is written to it,
\* in units of 1/Den: Math.fround(x) to the nearest unit
Stored(x) ==
  LET Units(n) == Digit(n, 1) + Limb * Digit(n, 2) + Limb * Limb * Digit(n, 3)
      Scaled(M, k) ==
        x[1] * Units(IF k <= 0 THEN BigShl(M, 0 - k) ELSE BigRound(M, k))
      Held(f) == Scaled(BigMul(f[2], <<Den>>), 0 - f[3])
  IN  IF x[2] = <<>> THEN 0 ELSE Held(RoundTo(24, x[1], x[2], x[3]))

\* ------------------------------------------------------- the MatrixRain effect
\* the options the effect is created with; equal speeds make the initial
\* speed independent of Math.random()
RainOptions ==
  [columns |-> 1, charsPerColumn |-> 2, spacing |-> FP(4, 10), charSize |-> One,
   speedMin |-> FP(3, 2), speedMax |-> FP(3, 2), viewHeight |-> One,
   densityFactor |-> One]
\* values Math.random() returns
Randoms == {0, FP(1, 2)}
\* glyphArray: the characters of the atlas that are not blank
GlyphArray(a) == DOMAIN AtlasData(a).chars

\* the UV rect MatrixRain writes for a glyph
RainUV(a, ch) ==
  LET g == AtlasData(a).chars[ch]
  IN  << FP(g.x, AtlasData(a).scaleW), FP(g.y + g.height, AtlasData(a).scaleH),
         FP(g.width, AtlasData(a).scaleW), -FP(g.height, AtlasData(a).scaleH) >>

\* an option or a value of Math.random(), given in units of 1/Den, as the
\* JavaScript number
DNum(v) == DRatio(v, Den)

\* the options as the constructor keeps them, the literals of the column
\* reset, and dummy.scale.set(charSize, charSize, 1) as a matrix holds it
RainNumbers ==
  [spacing |-> DNum(RainOptions.spacing),
   charSize |-> DNum(RainOptions.charSize),
   speedMin |-> DNum(RainOptions.speedMin),
   viewHeight |-> DNum(RainOptions.viewHeight),
   densityFactor |-> DNum(RainOptions.densityFactor),
   five |-> DRatio(5, 1),
   resetSpeed |-> DRatio(2, 100),
   resetRange |-> DRatio(6, 100),
   scale |-> << Stored(DNum(RainOptions.charSize)),
                Stored(DNum(RainOptions.charSize)), Stored(DRatio(1, 1)) >>]

\* i * this.charSize * 0.85, for every instance of a column
CharOffset ==
  [i \in 0..(RainOptions.charsPerColumn - 1) |->
     DMul(DMul(DRatio(i, 1), RainNumbers.charSize), DRatio(85, 100))]

\* textMesh.setMatrixAt(idx, m) for the instances idx = 0 .. n - 1 of the
\* column, m the matrix of a dummy at (column.x, charY, column.z) with
\* charY = column.y - (i * this.charSize * 0.85) and the scale (charSize,
\* charSize, 1); a write past the end of the typed array is dropped
RainMatrices(x, y, z, n, scale, offset) ==
  [k \in 1..Len(instanceMatrix) |->
     IF k <= n
     THEN Matrix(Stored(x), Stored(DSub(y, offset[k - 1])), Stored(z),
                 scale[1], scale[2], scale[3])
     ELSE instanceMatrix[k]]

\* 0.3 + (i / instanceIndices.length) * 0.7
Brightness(i, n) == DAdd(DRatio(3, 10), DMul(DRatio(i, n), DRatio(7, 10)))

\* what update() writes for instance k - 1 of a column of n, the same in
\* every frame: setXYZW(idx, brightness * 0.15, brightness * 0.9,
\* brightness * 0.2, 1.0) to the colours, brightness to the glow modes,
\* setXYZW(idx, brightness * 0.2, brightness * 1.0, brightness * 0.3,
\* brightness) to the outline colours
RainStyles ==
  LET Style(brightness) ==
        [color |-> << Stored(DMul(brightness, DRatio(15, 100))),
                      Stored(DMul(brightness, DRatio(9, 10))),
                      Stored(DMul(brightness, DRatio(2, 10))),
                      Stored(DRatio(1, 1)) >>,
         glowMode |-> Stored(brightness),
         outlineColor |-> << Stored(DMul(brightness, DRatio(2, 10))),
                             Stored(DMul(brightness, DRatio(1, 1))),
                             Stored(DMul(brightness, DRatio(3, 10))),
                             Stored(brightness) >>]
  IN  [n \in 1..RainOptions.charsPerColumn |->
         [k \in 1..n |-> Style(Brightness(k - 1, n))]]

\* new MatrixRain(textMesh, RainOptions): one column at grid position 0,
\* then _initializeInstances(); rY is the random draw of column.y, pick the
\* random character of each instance.  The options give speedMax = speedMin,
\* so column.speed = speedMin + Math.random() * 0 is speedMin
MatrixRainNew(rY, pick) ==
  LET Made(N, x, z, y, n) ==
        /\ rain' = [made |-> TRUE, active |-> TRUE,
                    densityFactor |-> N.densityFactor,
                    columns |-> RainOptions.columns,
                    x |-> x, z |-> z, y |-> y,
                    speed |-> N.speedMin, instances |-> n,
                    frames |-> 0]
        /\ instanceMatrix' = RainMatrices(x, y, z, n, N.scale, CharOffset)
        /\ uvOffset' = [k \in 1..Len(uvOffset) |->
                          IF k <= n THEN RainUV(font, pick[k]) ELSE uvOffset[k]]
      \* gridX = (col % gridSize) - gridSize / 2, gridZ likewise, with
      \* gridSize = ceil(sqrt(columns)) = 1
      Placed(N, grid) ==
        Made(N, DMul(grid, N.spacing), DMul(grid, N.spacing),
             DAdd(DMul(DNum(rY), N.viewHeight), N.viewHeight),
             Min(RainOptions.charsPerColumn, capacity))
  IN  /\ constructed
      /\ ~rain.made
      /\ Placed(RainNumbers, DSub(DRatio(0, 1), DRatio(1, 2)))
      /\ needsUpdate' = [needsUpdate EXCEPT !["instanceMatrix"] = TRUE,
                                            !["uvOffset"] = TRUE]
      /\ UNCHANGED <<gpu, capacity, count, _text, instanceColor,
                     instanceOutlineColor, instanceThickness, instanceGlowMode,
                     cacheVars, objVars, ops, last, prev, gpuVars>>

\* a call on the effect that writes no buffer of the text object
RainCall ==
  /\ rain.made
  /\ UNCHANGED <<meshVars, cacheVars, objVars, ops, last, prev, gpuVars>>

\* setDensity(density), density in units of 1/Den
RainSetDensity(density) ==
  /\ RainCall
  /\ rain' = [rain EXCEPT !.densityFactor = DNum(density)]

\* start()
RainStart ==
  /\ RainCall
  /\ rain' = [rain EXCEPT !.active = TRUE]

\* stop()
RainStop ==
  /\ RainCall
  /\ rain' = [rain EXCEPT !.active = FALSE]

\* dispose(): active = false, columns = [], glyphMap.clear()
RainDispose ==
  /\ RainCall
  /\ rain' = [rain EXCEPT !.active = FALSE, !.columns = 0]

\* MatrixRain.update(): one animation frame.  r1, r2 are the random draws of
\* the column reset, change[k] is "keep" or the character instance k - 1
\* changes to (Math.random() > 0.98).  A stopped effect returns at once; a
\* disposed and restarted one has no column left and sets the flags only
RainUpdate(r1, r2, change) ==
  LET \* the buffers after the frame: n instances of the column at height y
      Written(N, styles, n, y, speed) ==
        /\ rain' = [rain EXCEPT !.y = y, !.speed = speed, !.frames = @ + 1]
        /\ instanceMatrix' = RainMatrices(rain.x, y, rain.z, n, N.scale,
                                          CharOffset)
        /\ uvOffset' = [k \in 1..Len(uvOffset) |->
                          IF k <= n /\ change[k] # "keep"
                          THEN RainUV(font, change[k]) ELSE uvOffset[k]]
        /\ instanceColor' = [k \in 1..Len(instanceColor) |->
                               IF k <= n THEN styles[n][k].color
                               ELSE instanceColor[k]]
        /\ instanceGlowMode' = [k \in 1..Len(instanceGlowMode) |->
                                  IF k <= n THEN styles[n][k].glowMode
                                  ELSE instanceGlowMode[k]]
        /\ instanceOutlineColor' = [k \in 1..Len(instanceOutlineColor) |->
                                      IF k <= n THEN styles[n][k].outlineColor
                                      ELSE instanceOutlineColor[k]]
      \* if (column.y < -this.viewHeight) the column is reset
      Moved(N, y1, off) ==
        Written(N, RainStyles,
                IF rain.columns = 0 THEN 0 ELSE rain.instances,
                IF rain.columns = 0 THEN rain.y
                ELSE IF off
                THEN DAdd(N.viewHeight, DMul(DNum(r1), N.five))
                ELSE y1,
                IF rain.columns # 0 /\ off
                THEN DAdd(N.resetSpeed, DMul(DNum(r2), N.resetRange))
                ELSE rain.speed)
      \* column.y -= column.speed * this.densityFactor
      Fallen(N, y1) == Moved(N, y1, DLess(y1, DNeg(N.viewHeight)))
      Frame(N) ==
        Fallen(N, DSub(rain.y, DMul(rain.speed, rain.densityFactor)))
  IN  /\ rain.made
      /\ rain.frames < MaxOps              \* as many frames as operations
      /\ IF ~rain.active
         THEN UNCHANGED <<rain, instanceMatrix, uvOffset, instanceColor,
                          instanceGlowMode, instanceOutlineColor, needsUpdate>>
         ELSE /\ Frame(RainNumbers)
              /\ needsUpdate' = [b \in Buffers |->
                                   IF b = "instanceThickness"
                                   THEN needsUpdate[b] ELSE TRUE]
      /\ UNCHANGED <<gpu, capacity, count, _text, instanceThickness,
                     cacheVars, objVars, ops, last, prev, gpuVars>>

\* ------------------------------------------------------ the input sets
Indexes == -1..(MaxLen + 1)
Red == <<255, 0, 0>>
ColorArgs == {<<Red, One>>, << <<128, 128, 128>>, FP(1, 2) >>}   \* color, alpha

Next ==
  \* constructor options <<text, maxLength, {fontSize, align}>>
  \/ \E fref \in FontRefs, mat \in BOOLEAN,
        ca \in {<< <<>>, 1, DefaultOptions >>,
                << <<"B", "A">>, 1, Options(2, "center") >>,
                << <<"B", "A">>, 2, Options(1, "right") >>} :
       Construct(fref, ca[1], ca[2], mat, ca[3])
  \/ \E t \in Texts, o \in OptionSet : SetText(t, o)
  \/ \E i \in Indexes, c \in ColorArgs : SetCharacterColor(i, c[1], c[2])
  \/ \E i \in Indexes : SetCharacterOutlineColor(i, Red, One)
  \/ \E i \in Indexes : SetCharacterThickness(i, FP(8, 10), FP(3, 10))
  \/ \E i \in Indexes, g \in BOOLEAN : SetCharacterGlowMode(i, g)
  \/ SetGlobalColor(Red)
  \/ SetGlobalOutlineColor(Red)
  \/ SetGlobalThickness(FP(6, 10))
  \/ SetGlobalOutlineThickness(FP(2, 10))
  \/ SetGlobalGlowMode(One)
  \/ EnableGlow
  \/ DisableGlow
  \/ ResetCharacterAttributes

Spec == Init /\ [][Next]_vars

\* the font cache with constructions by name or by object, without the
\* maxLength option
NextLoad ==
  \/ \E l \in 1..MaxLoads, n \in Names : LoadFont(l, n)
  \/ \E l \in 1..MaxLoads : LoadResolve(l)
  \/ \E l \in 1..MaxLoads : LoadReject(l)
  \/ ClearFontCache
  \/ \E fref \in FontRefs, mat \in BOOLEAN : Construct(fref, <<"A">>, 0, mat, DefaultOptions)

SpecLoad == Init /\ [][NextLoad]_vars

\* texture samples: the two triples of the median examples, one on the inner
\* edge's soft band, one between the edges, one outside, in every channel order
ChannelOrders(t) ==
  {<<t[q[1]], t[q[2]], t[q[3]]>> :
     q \in {f \in [1..3 -> 1..3] : f[1] # f[2] /\ f[1] # f[3] /\ f[2] # f[3]}}
MsdSamples ==
  UNION {ChannelOrders(t) :
           t \in {<<FP(2, 10), FP(8, 10), FP(5, 10)>>, <<One, One, 0>>,
                  <<FP(525, 1000), 0, One>>, <<FP(4, 10), FP(4, 10), FP(4, 10)>>,
                  <<FP(2, 10), FP(2, 10), FP(2, 10)>>}}
\* pixelDist 0: the texel does not change across the pixel; the host
\* material's colour is opaque white
Pixels ==
  [msd : MsdSamples, pixelDist : {One, FP(1, 10), 0},
   host : {<<One, One, One, One>>}]
\* what clamp returns for a NaN (0.0 / 0.0 in the glow fade): NaN where min
\* and max pass it on, the lower bound 0.0 where they drop it
Undefined == {Zero(1), NaN}
LiveIndexes == {0, 1}

\* one text object of two glyphs, its style setters, and the renderer
NextShade ==
  \/ Construct([kind |-> "object", texture |-> TRUE, data |-> "a10"],
               <<"B", "A">>, 2, FALSE, DefaultOptions)
  \/ \E i \in LiveIndexes : SetCharacterColor(i, Red, FP(1, 100))
  \/ \E i \in LiveIndexes : SetCharacterThickness(i, FP(8, 10), FP(3, 10))
  \/ \E i \in LiveIndexes : SetCharacterGlowMode(i, FALSE)
  \/ SetGlobalThickness(FP(6, 10))
  \/ SetGlobalOutlineThickness(FP(2, 10))
  \/ SetGlobalColor(Red)
  \/ EnableGlow
  \/ DisableGlow
  \/ \E i \in LiveIndexes, px \in Pixels, und \in Undefined : Render(i, px, und)

SpecShade == Init /\ [][NextShade]_vars

\* uniforms and varyings handed to the fragment programs directly
UniformSets ==
  {[DefaultUniforms EXCEPT !.globalGlowMode = g, !.globalOutlineThickness = ot,
                           !.globalOutlineColor = oc] :
     g \in {0, One}, ot \in {0, FP(2, 10)},
     oc \in {ColorOf(<<0, 0, 0>>), ColorOf(<<255, 255, 255>>)}}
VaryingSets ==
  {[vColor |-> White, vOutlineColor |-> White,
    vThickness |-> DefaultThickness, vGlowMode |-> One],
   [vColor |-> ColorOf(Red) \o <<FP(1, 100)>>, vOutlineColor |-> White,
    vThickness |-> <<FP(8, 10), FP(3, 10)>>, vGlowMode |-> 0],
   [vColor |-> ColorOf(Red) \o <<FP(1, 200)>>, vOutlineColor |-> White,
    vThickness |-> DefaultThickness, vGlowMode |-> One]}

\* the two fragment programs and the splice, applied to given inputs
NextShader ==
  \* host shader sources: which of the four #include markers they contain
  \/ \E h \in [vertexCommon : BOOLEAN, uvVertex : BOOLEAN,
              fragmentCommon : BOOLEAN, ditheringFragment : BOOLEAN] :
       OnBeforeCompile(h)
  \/ \E path \in {"default", "splice"}, U \in UniformSets, V \in VaryingSets,
        px \in Pixels, und \in Undefined : Shade(path, U, V, px, und)

SpecShader == Init /\ [][NextShader]_vars

\* one text object of two glyphs with its buffer-writing calls, and the
\* renderer drawing it between any two of them
NextUpload ==
  \/ Construct([kind |-> "object", texture |-> TRUE, data |-> "a10"],
               <<"B", "A">>, 2, FALSE, DefaultOptions)
  \/ \E t \in {<<>>, <<"A">>, <<"A", "?", "B">>} : SetText(t, DefaultOptions)
  \/ \E i \in Indexes, c \in ColorArgs : SetCharacterColor(i, c[1], c[2])
  \/ \E i \in Indexes : SetCharacterOutlineColor(i, Red, One)
  \/ \E i \in Indexes : SetCharacterThickness(i, FP(8, 10), FP(3, 10))
  \/ \E i \in Indexes, g \in BOOLEAN : SetCharacterGlowMode(i, g)
  \/ ResetCharacterAttributes
  \/ Upload

SpecUpload == Init /\ [][NextUpload]_vars

\* one text object of two glyphs with a MatrixRain effect attached to it
RainChanges == {<<"keep", "keep">>, <<"B", "keep">>}
NextRain ==
  \/ Construct([kind |-> "object", texture |-> TRUE, data |-> "a10"],
               <<"B", "A">>, 2, FALSE, DefaultOptions)
  \/ \E rY \in Randoms, pick \in [1..2 -> GlyphArray("a10")] :
       MatrixRainNew(rY, pick)
  \/ \E r1 \in Randoms, r2 \in Randoms, change \in RainChanges :
       RainUpdate(r1, r2, change)
  \/ RainSetDensity(FP(1, 2))
  \/ RainStop
  \/ RainStart
  \/ RainDispose
  \/ SetText(<<"A">>, DefaultOptions)
  \/ ResetCharacterAttributes

SpecRain == Init /\ [][NextRain]_vars

TypeOK ==
  /\ constructed \in BOOLEAN
  /\ capacity \in Nat /\ count \in Nat
  /\ constructed =>
       /\ Len(uvOffset) = capacity
       /\ Len(instanceColor) = capacity
       /\ Len(instanceOutlineColor) = capacity
       /\ Len(instanceThickness) = capacity
       /\ Len(instanceGlowMode) = capacity

\* ------------------------------------------------------------ properties
\* slot i (0-based) has a stored transform / a stored transform of zero scale
HasTransform(i) == (i + 1) \in DOMAIN instanceMatrix
Parked(i) ==
  /\ HasTransform(i)
  /\ instanceMatrix[i + 1].sx = 0
  /\ instanceMatrix[i + 1].sy = 0
  /\ instanceMatrix[i + 1].sz = 0

\* the characters of t that resolve in the glyph lookup of atlas a, in order
Resolvable(t, a) ==
  LET Has(c) == c \in DOMAIN AtlasData(a).chars IN SelectSeq(t, Has)

CharSetters == {"setCharacterColor", "setCharacterOutlineColor",
                "setCharacterThickness", "setCharacterGlowMode"}

\* C1: for a text object at any time, 0 <= C <= N and every slot index i
\* with C <= i < N has zero scale in its transform (is parked).
C1_CountWithinCapacityAndParked ==
  constructed =>
    /\ 0 <= count
    /\ count <= capacity
    /\ \A i \in count..(capacity - 1) : Parked(i)

\* C2: no call leaves the capacity smaller than it was before the call.
C2_CapacityMonotone == [][constructed => capacity' >= capacity]_vars

\* a shorter text was set right after a setText that grew the capacity
C2_Witness ==
  /\ last.op = "setText" /\ prev.op = "setText"
  /\ prev.grew
  /\ Len(last.text) <= 1
  /\ capacity > Len(instanceMatrix)

\* Math.ceil(L * 1.5), stated on its own
CeilOneAndHalf(L) == CHOOSE n \in 0..(2 * L) : 2 * n >= 3 * L /\ 2 * (n - 1) < 3 * L

\* C3: growth law.  A setText with a text of length L > N_old leaves capacity
\* ceil(L * 1.5) and the reallocation keeps the data of the slots [0, N_old):
\* the four style arrays are unchanged there and so is the UV rect of every
\* slot the new layout does not write; with L <= N_old capacity is unchanged.
C3_GrowthLaw ==
  [][(constructed /\ last'.op = "setText") =>
       IF Len(last'.text) > capacity
       THEN /\ capacity' = CeilOneAndHalf(Len(last'.text))
            /\ \A i \in 1..capacity :
                 /\ instanceColor'[i] = instanceColor[i]
                 /\ instanceOutlineColor'[i] = instanceOutlineColor[i]
                 /\ instanceThickness'[i] = instanceThickness[i]
                 /\ instanceGlowMode'[i] = instanceGlowMode[i]
                 /\ (i > count' => uvOffset'[i] = uvOffset[i])
       ELSE capacity' = capacity]_vars

\* a three-character text grew a capacity of 2 to 5 while slot 0 carried a
\* fill colour set by setCharacterColor
C3_Witness ==
  /\ last.op = "setText" /\ last.grew
  /\ Len(last.text) = 3
  /\ capacity = 5
  /\ prev.op = "setCharacterColor"
  /\ instanceColor[1] # White

\* C4: round trip.  After setText(s), getText() returns exactly s.
C4_RoundTrip == (last.op = "setText") => (GetText = last.text)

\* the text set was longer than the capacity and has an unresolved character
C4_Witness ==
  /\ last.op = "setText" /\ last.grew
  /\ \E i \in DOMAIN last.text : last.text[i] = "?"

\* C5: idempotence.  A setText(s, o) that directly follows a setText(s, o)
\* leaves transforms, UV rects, style arrays, capacity and live count as the
\* first call left them.
C5_Idempotent ==
  [][(constructed /\ last.op = "setText" /\ last'.op = "setText"
        /\ last'.text = last.text /\ last'.options = last.options) =>
       /\ instanceMatrix' = instanceMatrix
       /\ uvOffset' = uvOffset
       /\ instanceColor' = instanceColor
       /\ instanceOutlineColor' = instanceOutlineColor
       /\ instanceThickness' = instanceThickness
       /\ instanceGlowMode' = instanceGlowMode
       /\ capacity' = capacity
       /\ count' = count]_vars

\* the same text was set twice in a row and the first call grew the capacity
C5_Witness ==
  /\ last.op = "setText" /\ last.again
  /\ prev.op = "setText" /\ prev.grew
  /\ count > 0

\* the UV rect of a glyph: {x/W, (y+h)/H, w/W, -h/H}
GlyphRect(a, ch) ==
  LET g == AtlasData(a).chars[ch]
      W == AtlasData(a).scaleW
      H == AtlasData(a).scaleH
  IN  <<FP(g.x, W), FP(g.y + g.height, H), FP(g.width, W), -FP(g.height, H)>>

\* C6: after setText(s) the live count is the number of resolvable characters
\* of s, slot k holds the k-th resolvable character, and the empty string
\* gives C = 0 with every slot in [0, N) parked.
C6_LiveSlotsAndEmptyText ==
  (constructed /\ last.op = "setText") =>
    LET r == Resolvable(last.text, font)
    IN  /\ count = Len(r)
        /\ \A k \in 1..Len(r) : uvOffset[k] = GlyphRect(font, r[k])
        /\ (last.text = <<>> =>
              count = 0 /\ \A i \in 0..(capacity - 1) : Parked(i))

\* the centre x of each resolvable character of a line when a character
\* without glyph advances the cursor by 0.3 * fontSize
RECURSIVE ClaimedLineXs(_, _, _, _)
ClaimedLineXs(line, a, fontSize, cursor) ==
  IF line = <<>> THEN <<>>
  ELSE IF Head(line) \in DOMAIN AtlasData(a).chars
  THEN LET g == AtlasData(a).chars[Head(line)]
           S == AtlasData(a).size
       IN  <<cursor + FP(g.xoffset * fontSize, S) + FP(g.width * fontSize, 2 * S)>>
           \o ClaimedLineXs(Tail(line), a, fontSize,
                            cursor + FP(g.xadvance * fontSize, S))
  ELSE ClaimedLineXs(Tail(line), a, fontSize, cursor + FP(3 * fontSize, 10))

RECURSIVE ClaimedXs(_, _, _)
ClaimedXs(lines, a, o) ==
  IF lines = <<>> THEN <<>>
  ELSE ClaimedLineXs(Head(lines), a, o.fontSize,
                     AlignOffset(o.align, LineWidth(Head(lines), a, o.fontSize)))
       \o ClaimedXs(Tail(lines), a, o)

\* C7: a character absent from the glyph map advances the running cursor by
\* 0.3 * fontSize, for every fontSize and atlas nominal size, and takes no slot.
C7_MissingGlyphAdvance ==
  (constructed /\ last.op = "setText") =>
    LET xs == ClaimedXs(SplitLines(last.text), font, last.options)
    IN  /\ count = Len(xs)
        /\ \A k \in 1..Len(xs) :
             k <= Len(instanceMatrix) => instanceMatrix[k].x = xs[k]

\* the array a per-character setter writes
TargetOf(op) ==
  IF op = "setCharacterColor" THEN "instanceColor"
  ELSE IF op = "setCharacterOutlineColor" THEN "instanceOutlineColor"
  ELSE IF op = "setCharacterThickness" THEN "instanceThickness"
  ELSE "instanceGlowMode"

\* C8: a per-character setter with an index outside [0, C) changes no buffer
\* and leaves text, C and N unchanged; with an index inside [0, C) it changes
\* only that slot of its one attribute.
C8_IndexGuard ==
  [][(constructed /\ last'.op \in CharSetters) =>
       LET idx == last'.index
           inside == idx >= 0 /\ idx < count
           Kept(b, i) == ~(inside /\ b = TargetOf(last'.op) /\ i = idx + 1)
       IN  /\ capacity' = capacity /\ count' = count /\ _text' = _text
           /\ instanceMatrix' = instanceMatrix
           /\ uvOffset' = uvOffset
           /\ DOMAIN instanceColor' = DOMAIN instanceColor
           /\ DOMAIN instanceOutlineColor' = DOMAIN instanceOutlineColor
           /\ DOMAIN instanceThickness' = DOMAIN instanceThickness
           /\ DOMAIN instanceGlowMode' = DOMAIN instanceGlowMode
           /\ \A i \in 1..capacity :
                /\ Kept("instanceColor", i) => instanceColor'[i] = instanceColor[i]
                /\ Kept("instanceOutlineColor", i) =>
                     instanceOutlineColor'[i] = instanceOutlineColor[i]
                /\ Kept("instanceThickness", i) =>
                     instanceThickness'[i] = instanceThickness[i]
                /\ Kept("instanceGlowMode", i) =>
                     instanceGlowMode'[i] = instanceGlowMode[i]]_vars

\* a per-character setter was called with the index of a parked slot
C8_Witness ==
  /\ last.op \in CharSetters
  /\ last.index >= count
  /\ last.index < capacity

\* the font option names a usable atlas: a cached name, or an object with
\* both texture and data
ValidFontRef(fref) ==
  \/ fref.kind = "name" /\ fontCache[fref.name] # 0
  \/ fref.kind = "object" /\ fref.texture /\ fref.data # "none"

\* C9: construction throws exactly when the atlas reference is invalid: the
\* not-loaded error for a name without a completed load, the configuration
\* error for a reference that is neither a name nor an object with texture
\* and data; with a cached name or a direct object construction succeeds.
C9_ConstructionErrors ==
  [][(last'.op = "construct" /\ last = NoCall) =>
       LET fref == last'.font
       IN  IF ValidFontRef(fref) THEN constructed' /\ thrown' = "none"
           ELSE IF fref.kind = "name" THEN ~constructed' /\ thrown' = "NotLoaded"
           ELSE ~constructed' /\ thrown' = "Configuration"]_vars

\* C10: constructing with the material option and a valid font completes
\* successfully.
C10_MaterialOptionConstructs ==
  (last.op = "construct" /\ last.material /\ ValidFontRef(last.font)) =>
    (constructed /\ thrown = "none")

\* ------------------------------------------------ font cache properties
\* the fetches in flight for a name
InFlight(n) == {l \in 1..MaxLoads : loads[l].status = "pending" /\ loads[l].name = n}
\* a load for the name has completed
Completed(n) == \E k \in 1..MaxLoads : loads[k].status = "resolved" /\ loads[k].name = n
\* this step is the call loadFont(n) made as load l
Calls(l, n) == loads[l].status = "unused" /\ loads'[l].status # "unused" /\ loads'[l].name = n
\* the entries clearFontCache finds in the cache
Cached == {fontCache[n] : n \in {m \in Names : fontCache[m] # 0}}

\* C14: loads of one name issued concurrently are deduplicated: at most one
\* fetch of the image/metrics pair is in flight per name at any time (so that
\* concurrent callers share that fetch's one entry).
C14_OneFetchInFlight ==
  \A n \in Names : Cardinality(InFlight(n)) <= 1

\* C15 as stated: once a load for a name has completed, every later
\* load(name) returns the cached entry without a fetch and without changing
\* the cache.
C15_CompletedLoadIsFinal ==
  [][\A l \in 1..MaxLoads, n \in Names :
       (Calls(l, n) /\ Completed(n)) =>
         /\ loads'[l].status = "cached"
         /\ loads'[l].entry # 0
         /\ fontCache' = fontCache]_vars

\* C15 amended: while the cache holds an entry for a name, load(name) returns
\* exactly that entry, starts no fetch and leaves the cache as it is; and
\* get(name) is the cached entry, or null (0) when there is none.
C15_CachedLoadReturnsEntry ==
  [][\A l \in 1..MaxLoads, n \in Names :
       (Calls(l, n) /\ fontCache[n] # 0) =>
         /\ loads'[l].status = "cached"
         /\ loads'[l].entry = fontCache[n]
         /\ GetFont(n) = loads'[l].entry
         /\ fontCache' = fontCache
         /\ disposed' = disposed
         /\ \A k \in 1..MaxLoads : k # l => loads'[k] = loads[k]]_vars

\* a load was answered from the cache, and a fetch that was already in
\* flight has replaced that entry since
C15_Witness ==
  \E l \in 1..MaxLoads :
    /\ loads[l].status = "cached"
    /\ loads[l].entry # 0
    /\ fontCache[loads[l].name] \notin {0, loads[l].entry}

\* C16: a load whose fetch fails ends rejected, starts no other fetch and
\* creates no cache entry; a name without cache entry is still refused by the
\* constructor with the not-loaded error.
C16_FailedLoadLeavesNoEntry ==
  [][/\ \A l \in 1..MaxLoads :
          (loads[l].status = "pending" /\ loads'[l].status = "rejected") =>
            /\ fontCache' = fontCache
            /\ \A k \in 1..MaxLoads : k # l => loads'[k] = loads[k]
     /\ (last = NoCall /\ last'.op = "construct" /\ last'.font.kind = "name"
           /\ fontCache[last'.font.name] = 0) =>
          (~constructed' /\ thrown' = "NotLoaded")]_vars

\* the only load of a name was rejected, and a construction by that name threw
C16_Witness ==
  /\ last.op = "construct" /\ last.font.kind = "name"
  /\ thrown = "NotLoaded"
  /\ fontCache[last.font.name] = 0
  /\ \E l \in 1..MaxLoads :
       loads[l].status = "rejected" /\ loads[l].name = last.font.name

\* C17: clearFontCache disposes the texture of every entry in the cache
\* exactly once, disposes nothing else, and leaves the cache empty, so that
\* getFont answers null for every name.
C17_ClearReleasesAndEmpties ==
  [][((\E n \in Names : fontCache[n] # 0 /\ fontCache'[n] = 0)
        \/ disposed' # disposed) =>
       /\ \A n \in Names : fontCache'[n] = 0 /\ GetFont(n)' = 0
       /\ \A x \in 1..MaxLoads :
            disposed'[x] = disposed[x] + (IF x \in Cached THEN 1 ELSE 0)]_vars

\* two entries were cached and cleared together
C17_Witness ==
  /\ \A n \in Names : fontCache[n] = 0
  /\ Cardinality({x \in 1..MaxLoads : disposed[x] = 1}) >= 2

\* ----------------------------------------------------- shader properties
Shaded == frag.out.path # "none"
AllMarkers(h) ==
  h.vertexCommon /\ h.uvVertex /\ h.fragmentCommon /\ h.ditheringFragment

\* C11: a host program that lacks one of the extension points makes the
\* splice fail with UnsupportedHostPipelineError; it is never left unmodified
\* or partly modified without an error.
C11_SpliceRejectsUnsupportedHost ==
  (program.compiled /\ ~AllMarkers(program.host)) =>
    program.error = "UnsupportedHostPipelineError"

\* C12: a character is shaded in glow mode iff globalGlowMode times its
\* instance glow flag is above 0.5, and in hard-outline mode otherwise.
C12_GlowModeIsProduct ==
  Shaded =>
    LET o == frag.out
        glowMode == FMul(ToFloat(o.U.globalGlowMode), ToFloat(o.V.vGlowMode))
    IN  o.mode = IF Less(FHalf, glowMode) THEN "glow" ELSE "hard"

\* C13: the effective thickness, outline thickness, fill colour and outline
\* colour are the products of the global value and the instance value, and
\* the two edges are placed by them; global 0.5 with instance 0.8 gives 0.4.
C13_EffectiveStyleIsProduct ==
  Shaded =>
    LET o == frag.out
        t == FMul(ToFloat(o.U.globalThickness), ToFloat(o.V.vThickness[1]))
        ot == FMul(ToFloat(o.U.globalOutlineThickness),
                   ToFloat(o.V.vThickness[2]))
        s == ToFloat(o.U.globalSmoothness)
    IN  /\ o.finalThickness = t
        /\ o.finalOutlineThickness = ot
        /\ \A k \in 1..3 :
             /\ o.fillColor[k] =
                  FMul(ToFloat(o.U.globalColor[k]), ToFloat(o.V.vColor[k]))
             /\ o.outlineColorFinal[k] =
                  FMul(ToFloat(o.U.globalOutlineColor[k]),
                       ToFloat(o.V.vOutlineColor[k]))
        /\ \E und \in Undefined :
             /\ o.innerAlpha = EdgeAlpha(o.sd, t, o.w, s, und)
             /\ o.outerAlpha = EdgeAlpha(o.sd, FSub(t, ot), o.w, s, und)
        /\ (o.U.globalThickness = FP(5, 10) /\ o.V.vThickness[1] = FP(8, 10)) =>
             o.finalThickness = ToFloat(FP(4, 10))

\* global thickness 0.5 met an instance multiplier 0.8
C13_Witness ==
  /\ Shaded
  /\ frag.out.U.globalThickness = FP(5, 10)
  /\ frag.out.V.vThickness = <<FP(8, 10), FP(3, 10)>>
  /\ frag.out.finalThickness = ToFloat(FP(4, 10))
  /\ frag.out.U.globalOutlineThickness = FP(2, 10)

\* the middle one of three values
Middle(t) ==
  CHOOSE m \in {t[1], t[2], t[3]} :
    /\ Cardinality({k \in 1..3 : t[k] <= m}) >= 2
    /\ Cardinality({k \in 1..3 : t[k] >= m}) >= 2

\* C18: median returns the middle value of its three arguments, in both
\* shaders: median(0.2, 0.8, 0.5) = 0.5, median(1, 1, 0) = 1, and the result
\* is the same for every order of the arguments.
C18_MedianIsMiddle ==
  Shaded =>
    LET o == frag.out
        m == o.px.msd
    IN  /\ o.sd = ToFloat(Middle(m))
        /\ \A q \in ChannelOrders(m) :
             /\ median(ToFloat(q[1]), ToFloat(q[2]), ToFloat(q[3]))
                  = ToFloat(Middle(m))
             /\ medianSpliced(ToFloat(q[1]), ToFloat(q[2]), ToFloat(q[3]))
                  = ToFloat(Middle(m))
        /\ m = <<FP(2, 10), FP(8, 10), FP(5, 10)>> => o.sd = FHalf
        /\ m = <<One, One, 0>> => o.sd = FOne

\* the sample (0.2, 0.8, 0.5) was shaded
C18_Witness ==
  /\ Shaded
  /\ frag.out.px.msd = <<FP(2, 10), FP(8, 10), FP(5, 10)>>
  /\ frag.out.sd = FHalf

\* C19: in both shading paths and both modes a pixel is discarded exactly
\* when its alpha is below 0.01; alpha equal to 0.01 is kept in every path.
C19_DiscardBoundary ==
  Shaded =>
    LET o == frag.out
        \* a NaN alpha is below nothing
        below == Less(o.alpha, Literal(1, 100))
    IN  /\ below => (o.discarded /\ o.fragColor = <<>>)
        /\ ~below => (~o.discarded /\ o.fragColor # <<>>)

\* the spliced program, in hard-outline mode, met alpha = 0.01 exactly
C19_Witness ==
  /\ Shaded
  /\ frag.out.path = "splice"
  /\ frag.out.mode = "hard"
  /\ frag.out.alpha = Literal(1, 100)
  /\ ~frag.out.discarded

\* C20: with glowMode 0 the pixel is the outline-mask blend, with glowMode 1
\* the solid/fade branch, and the two differ wherever the inner coverage is
\* strictly between 0 and 1.
C20_HardAndGlowDiffer ==
  Shaded =>
    LET o == frag.out
        \* the glow mode in units of 1/Den^2
        g == o.U.globalGlowMode * o.V.vGlowMode
        a == ToFloat(o.V.vColor[4])
        outerEdge == FSub(o.finalThickness, o.finalOutlineThickness)
        width == FSub(o.finalThickness, outerEdge)
        mask == FMul(o.outerAlpha, FSub(FOne, o.innerAlpha))
        hard == <<mix(o.fillColor, o.outlineColorFinal, mask),
                  FMul(o.outerAlpha, a)>>
        \* the fade is defined where the two edges differ
        fade == IF IsZero(width) THEN Zero(1)
                ELSE smoothstep(Zero(1), FOne,
                                FDiv(FSub(o.sd, outerEdge), width), NaN)
        solid == Less(FHalf, o.innerAlpha)
        glow == IF solid THEN <<o.fillColor, FMul(FOne, a)>>
                ELSE <<o.outlineColorFinal, FMul(FMul(fade, fade), a)>>
    IN  /\ g = 0 => <<o.color, o.alpha>> = hard
        /\ (g = Den * Den /\ (solid \/ ~IsZero(width))) =>
             <<o.color, o.alpha>> = glow
        /\ (Less(Zero(1), o.innerAlpha) /\ Less(o.innerAlpha, FOne)
              /\ (solid \/ ~IsZero(width))) =>
             hard # glow

\* the quads the claim gives for one line: extents (width, height) * scale,
\* centre (cursor + xoffset * scale + halfWidth,
\*         anchor - yoffset * scale - halfHeight), cursor advanced by
\* xadvance * scale; a character without glyph moves the cursor as the
\* layout moves it
RECURSIVE ClaimedLineQuads(_, _, _, _, _)
ClaimedLineQuads(line, a, fontSize, cursor, anchor) ==
  IF line = <<>> THEN <<>>
  ELSE IF Head(line) \in DOMAIN AtlasData(a).chars
  THEN LET g == AtlasData(a).chars[Head(line)]
           S == AtlasData(a).size
           halfWidth == FP(g.width * fontSize, 2 * S)
           halfHeight == FP(g.height * fontSize, 2 * S)
       IN  <<[w |-> 2 * halfWidth, h |-> 2 * halfHeight,
              cx |-> cursor + FP(g.xoffset * fontSize, S) + halfWidth,
              cy |-> anchor - FP(g.yoffset * fontSize, S) - halfHeight]>>
           \o ClaimedLineQuads(Tail(line), a, fontSize,
                               cursor + FP(g.xadvance * fontSize, S), anchor)
  ELSE ClaimedLineQuads(Tail(line), a, fontSize,
                        cursor + MissingAdvance(a, fontSize), anchor)

RECURSIVE ClaimedQuads(_, _, _, _)
ClaimedQuads(lines, lineIdx, a, o) ==
  IF lineIdx >= Len(lines) THEN <<>>
  ELSE ClaimedLineQuads(lines[lineIdx + 1], a, o.fontSize,
                        AlignOffset(o.align,
                                    LineWidth(lines[lineIdx + 1], a, o.fontSize)),
                        LineY(Len(lines), lineIdx, o))
       \o ClaimedQuads(lines, lineIdx + 1, a, o)

\* C21: after setText the k-th resolvable character has, in slot k, a quad of
\* extents (glyph.width, glyph.height) * scale centred at (cursor + xoffset *
\* scale + halfWidth, lineAnchor - yoffset * scale - halfHeight), the cursor
\* advancing by xadvance * scale per character; setText("A", size 1, left) on
\* the atlas of nominal size 10 gives one live slot of half-extents (0.5, 0.5)
\* centred at (0.5, -0.5).
C21_QuadPlacement ==
  (constructed /\ last.op = "setText") =>
    LET q == ClaimedQuads(SplitLines(last.text), 0, font, last.options)
    IN  /\ \A k \in 1..Len(q) :
             /\ HasTransform(k - 1)
             /\ instanceMatrix[k].sx = q[k].w /\ instanceMatrix[k].sy = q[k].h
             /\ instanceMatrix[k].x = q[k].cx /\ instanceMatrix[k].y = q[k].cy
        /\ (font = "a10" /\ last.text = <<"A">> /\ last.options = Options(1, "left")) =>
             /\ count = 1
             /\ instanceMatrix[1] = Matrix(FP(1, 2), -FP(1, 2), 0, One, One, One)

\* C22: constructing with {text, fontSize: f, align: a} leaves the layout
\* that setText(text, {fontSize: f, align: a}) gives on the fresh object.
C22_ConstructorHonoursLayoutOptions ==
  (constructed /\ last.op = "construct" /\ last.text # <<>>) =>
    LET M == SetTextOn(FreshMesh(InitialCapacity(last.maxLength, last.text)),
                       font, last.text, last.options)
    IN  /\ count = M.count
        /\ instanceMatrix = M.instanceMatrix
        /\ uvOffset = M.uvOffset

\* the six per-slot buffers
AllBuffers ==
  <<instanceMatrix, uvOffset, instanceColor, instanceOutlineColor,
    instanceThickness, instanceGlowMode>>

\* C23: the per-slot buffers of a text object change only in a step that is
\* a call on the text object itself, and every glow flag is 0 or 1.
C23_BuffersOwnedByTextObject ==
  [][constructed =>
       /\ (AllBuffers' # AllBuffers => ops' = ops + 1)
       /\ \A i \in DOMAIN instanceGlowMode' : instanceGlowMode'[i] \in {0, One}]_vars

\* C24: a call on the object that changes a buffer's contents (setText, a
\* growth included; a per-character setter that takes effect;
\* resetCharacterAttributes) leaves needsUpdate set on that buffer; once the
\* renderer has drawn the object, each buffer has needsUpdate set or is
\* equal to what was uploaded last; a per-character setter that takes no
\* effect (its index is outside [0, C)) sets no flag.
C24_DirtyBeforeRender ==
  [][constructed' =>
       /\ (constructed /\ ops' = ops + 1) =>
            \A b \in Buffers : Content(b)' # Content(b) => needsUpdate'[b]
       /\ gpu'["instanceMatrix"].has =>
            \A b \in Buffers : needsUpdate'[b] \/ gpu'[b].data = Content(b)'
       /\ (ops' = ops + 1 /\ last'.op \in CharSetters
             /\ (last'.index < 0 \/ last'.index >= count)) =>
            needsUpdate' = needsUpdate /\ gpu' = gpu]_vars

\* C25: a growth from N to newN leaves every per-slot array with newN slots,
\* the style of [0, N) as it was, the style of [N, newN) at the defaults, and
\* a stored transform and UV rect for every live character at an index >= N.
C25_GrowthReallocatesEveryArray ==
  [][(constructed /\ ops' = ops + 1 /\ last'.op = "setText"
        /\ Len(last'.text) > capacity) =>
       /\ \A b \in Buffers : Len(Content(b)') = capacity'
       /\ \A i \in 1..capacity :
            /\ instanceColor'[i] = instanceColor[i]
            /\ instanceOutlineColor'[i] = instanceOutlineColor[i]
            /\ instanceThickness'[i] = instanceThickness[i]
            /\ instanceGlowMode'[i] = instanceGlowMode[i]
       /\ \A i \in (capacity + 1)..capacity' :
            /\ instanceColor'[i] = White
            /\ instanceOutlineColor'[i] = White
            /\ instanceThickness'[i] = DefaultThickness
            /\ instanceGlowMode'[i] = One
       /\ \A i \in (capacity + 1)..count' :
            /\ i \in DOMAIN instanceMatrix'
            /\ i \in DOMAIN uvOffset']_vars

\* C26: after setText(s) the capacity is at least the length of s and every
\* slot the call laid out or parked, [0, N), lies inside every buffer.
C26_WritesInsideBuffers ==
  (constructed /\ last.op = "setText") =>
    /\ capacity >= Len(last.text)
    /\ \A b \in Buffers : \A i \in 1..capacity : i \in DOMAIN Content(b)

\* every slot in [0, N) carries the default style
DefaultStyled ==
  \A i \in 1..capacity :
    /\ instanceColor[i] = White
    /\ instanceOutlineColor[i] = White
    /\ instanceThickness[i] = DefaultThickness
    /\ instanceGlowMode[i] = One

\* C27: resetCharacterAttributes() leaves every slot in [0, N) with the
\* default style, leaves text, C, N, transforms, UV rects and uniforms
\* unchanged, and is idempotent: on an object as a reset leaves it, a reset
\* changes no buffer.
C27_ResetCoversCapacity ==
  [][(constructed /\ ops' = ops + 1 /\ last'.op = "resetCharacterAttributes") =>
       /\ \A i \in 1..capacity :
            /\ instanceColor'[i] = White
            /\ instanceOutlineColor'[i] = White
            /\ instanceThickness'[i] = DefaultThickness
            /\ instanceGlowMode'[i] = One
       /\ _text' = _text /\ count' = count /\ capacity' = capacity
       /\ instanceMatrix' = instanceMatrix /\ uvOffset' = uvOffset
       /\ uniforms' = uniforms
       /\ DefaultStyled => AllBuffers' = AllBuffers]_vars

\* a reset ran while the last slot was parked and carried the colours and
\* the glow value the rain effect had written into it
C27_Witness ==
  /\ last.op = "resetCharacterAttributes" /\ prev.op = "setText"
  /\ count < capacity
  /\ rain.made /\ rain.frames > 0 /\ rain.instances = capacity
  /\ instanceGlowMode[capacity] = One
  /\ instanceColor[capacity] = White

\* C28: getLength() is the number of characters of getText() that resolve in
\* the glyph lookup, from construction on.
C28_LengthIsDisplayedCharacters ==
  constructed => GetLength = Len(Resolvable(GetText, font))

\* C29: setText leaves the fill colour, outline colour, thickness pair and
\* glow flag of every slot below the pre-call capacity as they were.
C29_SetTextKeepsStyle ==
  [][(constructed /\ ops' = ops + 1 /\ last'.op = "setText") =>
       \A i \in 1..capacity :
         /\ instanceColor'[i] = instanceColor[i]
         /\ instanceOutlineColor'[i] = instanceOutlineColor[i]
         /\ instanceThickness'[i] = instanceThickness[i]
         /\ instanceGlowMode'[i] = instanceGlowMode[i]]_vars

\* the glow flag cleared on slot 0 is still there after a setText that grew
\* the capacity and put another character into slot 0
C29_Witness ==
  /\ last.op = "setText" /\ last.grew
  /\ prev.op = "setCharacterGlowMode"
  /\ instanceGlowMode[1] = 0
  /\ count >= 1
  /\ uvOffset[1] = GlyphRect(font, "A")

\* C30: the texture of every completed load is the cached entry of its name
\* or has been disposed.
C30_NoTextureLeak ==
  \A l \in 1..MaxLoads :
    loads[l].status = "resolved" =>
      fontCache[loads[l].name] = l \/ disposed[l] >= 1

====
